---- MODULE Spec2Model ----
(***************************************************************************)
(* The inference orchestration pipeline of the Biowatch ML servers:        *)
(* VideoCapableLitAPI.predict_with_video_support, _predict_video and the   *)
(* frame sampler extract_frames_at_fps (python-environments/common/        *)
(* utils.py), the older copy of the orchestrator in video_utils.py, and    *)
(* the DeepFaune / Manas LitAPI classes that inherit from that copy.       *)
(*                                                                         *)
(* The orchestrator is a Python generator.  It is modelled as a state      *)
(* machine with a program counter; `control` says who runs: the consumer   *)
(* (the generator is suspended at a yield, or not started, or finished)    *)
(* or the generator.  The consumer resumes it with Pull (next()) or ends   *)
(* it with Close (close(), also what discarding a generator does).         *)
(***************************************************************************)
EXTENDS Integers, Sequences, FiniteSets, TLC

\* ------------------------------------------------------------------ bounds
\* Longest request (number of instances).
MaxInstances == 3
\* Number of readable source frames of the longest video on the disk.
MaxFrames == 3
\* The sampler on its own: largest reported frame rate, largest requested
\* sampling rate and largest number of readable source frames.
MaxFps == 4
MaxTarget == 3
MaxSourceFrames == 5
\* The helpers on their own: most boxes the detector finds in an image, most
\* classes of a score list, largest k, longest instance / prediction list.
MaxDetections == 3
MaxClasses == 6
MaxK == 6
MaxBatch == 2
\* Longest request whose instances carry side fields.
MaxTagged == 2
MaxDim == 3
MaxOut == 2
MaxRouted == 2

\* --------------------------------------------------------------- file paths
\* A path is its stem, a serial number (0 for the request's files, the
\* tempfile serial for frame files) and its suffix (Path(...).suffix).
MkPath(stem, suffix) == [stem |-> stem, n |-> 0, suffix |-> suffix]

\* tempfile.NamedTemporaryFile(suffix=".jpg", delete=False).name: a fresh
\* name for every call.
TempName(k) == [stem |-> "tmp", n |-> k, suffix |-> ".jpg"]

\* str.lower() on the suffixes that occur.
Lower(s) ==
    CASE s = ".MP4" -> ".mp4"
      [] s = ".Mp4" -> ".mp4"
      [] s = ".MKV" -> ".mkv"
      [] s = ".Mov" -> ".mov"
      [] s = ".WebM" -> ".webm"
      [] s = ".AVI" -> ".avi"
      [] s = ".M4V" -> ".m4v"
      [] s = ".JPG" -> ".jpg"
      [] OTHER -> s

VIDEO_EXTENSIONS == {".mp4", ".mkv", ".mov", ".webm", ".avi", ".m4v"}

\* (mutant) the suffix is compared as it is spelled
is_video_file_CaseSensitive(filepath) == filepath.suffix \in VIDEO_EXTENSIONS

\* Path(filepath).suffix.lower() in VIDEO_EXTENSIONS
is_video_file(filepath) == Lower(filepath.suffix) \in VIDEO_EXTENSIONS

\* A file name as the pieces between and including its dots, "clip.mp4.bak"
\* being <<"clip", ".", "mp4", ".", "bak">>.
RECURSIVE Join(_)
Join(name) == IF name = << >> THEN "" ELSE Head(name) \o Join(Tail(name))

\* name.rfind("."), counted from 1; 0 when the name has no dot
RFind(name) ==
    IF \A k \in DOMAIN name : name[k] # "." THEN 0
    ELSE CHOOSE k \in DOMAIN name :
             name[k] = "." /\ \A later \in DOMAIN name : name[later] = "." => later <= k

\* Path(name): PurePath.suffix is the name from its last dot on, unless that
\* dot is the first or the last character of the name; stem is the rest
ParsePath(name) ==
    LET dot == RFind(name)
    IN  IF 1 < dot /\ dot < Len(name)
        THEN [stem |-> Join(SubSeq(name, 1, dot - 1)), n |-> 0,
              suffix |-> Join(SubSeq(name, dot, Len(name)))]
        ELSE [stem |-> Join(name), n |-> 0, suffix |-> ""]

\* ------------------------------------------------------------ the disk
\* What a decoded still image (or a video frame written to a jpg) holds, as
\* far as the single-image predictor is concerned.
Image(label, score) == [decodable |-> TRUE, label |-> label, score |-> score]
Corrupt == [decodable |-> FALSE, label |-> "none", score |-> 0]

\* A video file: whether cv2.VideoCapture opens it, CAP_PROP_FPS,
\* CAP_PROP_FRAME_COUNT and the frames cap.read() delivers, in order.
Video(opens, fps, frame_count, frames) ==
    [opens |-> opens, fps |-> fps, frame_count |-> frame_count, frames |-> frames]

GoodFrames(n) == [k \in 1..n |-> IF k % 2 = 1 THEN Image("deer", 90) ELSE Image("blank", 0)]
\* A video whose second frame cannot be decoded by the predictor.
BadSecondFrame(n) == [k \in 1..n |-> IF k = 2 THEN Corrupt ELSE Image("fox", 80)]

ImageFiles ==
    (MkPath("a", ".jpg") :> Image("deer", 90)) @@
    (MkPath("b", ".JPG") :> Image("blank", 0)) @@
    (MkPath("bad", ".jpg") :> Corrupt)

\* A path of the request that names no file.
MissingFiles == {MkPath("gone", ".jpg")}

VideoFiles ==
    (MkPath("v", ".mp4") :> Video(TRUE, 2, MaxFrames, GoodFrames(MaxFrames))) @@
    (MkPath("c", ".MP4") :> Video(TRUE, 1, MaxFrames, BadSecondFrame(MaxFrames))) @@
    (MkPath("e", ".Mov") :> Video(TRUE, 2, 0, << >>)) @@
    (MkPath("z", ".avi") :> Video(TRUE, 0, MaxFrames, GoodFrames(MaxFrames))) @@
    (MkPath("no", ".mkv") :> Video(FALSE, 0, 0, << >>))

\* Files told apart by their names only: how their extension can be spelled
\* (the six video extensions in several cases, other extensions, one that
\* starts like a video extension), a name without a dot, a hidden file
\* called ".mp4", and names with two dots.  Each of them can be read as a
\* still image and opened as a one-frame clip.
VideoSpellings ==
    {"mp4", "MP4", "Mp4", "mkv", "MKV", "mov", "Mov", "webm", "WebM", "avi", "AVI",
     "m4v", "M4V"}

OtherSpellings == {"jpg", "JPG", "png", "mp3", "mp4x"}

RoutedNames ==
    {<<"clip", ".", e>> : e \in VideoSpellings \cup OtherSpellings} \cup
    {<<"clip">>, <<".", "mp4">>, <<"clip", ".", "mp4", ".", "bak">>,
     <<"clip", ".", "jpg", ".", "MP4">>}

RoutedPaths == {ParsePath(name) : name \in RoutedNames}

Paths == DOMAIN ImageFiles \cup MissingFiles \cup DOMAIN VideoFiles

\* Clips for the sampler on its own: one per reported frame rate and number
\* of readable frames (the clip number n names both).  Every frame shows
\* something else: the score the classifier gives it is its 0-based position
\* in the source, so a record tells which frame it was made from.
SamplerPath(fps, nframes) ==
    [stem |-> "s", n |-> fps * (MaxSourceFrames + 1) + nframes, suffix |-> ".mp4"]

SourceFrames(nframes) == [k \in 1..nframes |-> Image("deer", k - 1)]

SamplerVideos ==
    [p \in {SamplerPath(fps, nframes) : fps \in 1..MaxFps, nframes \in 0..MaxSourceFrames} |->
        Video(TRUE, p.n \div (MaxSourceFrames + 1), p.n % (MaxSourceFrames + 1),
              SourceFrames(p.n % (MaxSourceFrames + 1)))]

\* cv2.VideoCapture(str(video_path))
VideoAt(path) ==
    IF path \in DOMAIN VideoFiles THEN VideoFiles[path]
    ELSE IF path \in RoutedPaths THEN Video(TRUE, 1, 1, GoodFrames(1))
    ELSE SamplerVideos[path]

\* ------------------------------------------------------------ the request
\* {"filepath": ..., "sample_fps"?: ...}
Instances ==
    {[filepath |-> p] : p \in Paths} \cup
    {[filepath |-> MkPath("v", ".mp4"), sample_fps |-> 2]}

RECURSIVE SeqsUpTo(_, _)
SeqsUpTo(S, n) ==
    IF n = 0 THEN {<< >>}
    ELSE LET shorter == SeqsUpTo(S, n - 1)
         IN  shorter \cup {Append(s, x) : s \in {t \in shorter : Len(t) = n - 1}, x \in S}

Requests == SeqsUpTo(Instances, MaxInstances) \ {<< >>}

\* instance.get("sample_fps", 1)
SampleFps(instance) ==
    IF "sample_fps" \in DOMAIN instance THEN instance.sample_fps ELSE 1

VARIABLES
    request,          \* x["instances"]
    i,                \* index of the instance the for loop is at (0: not started)
    pc,               \* where the generator is
    control,          \* "consumer" or "generator"
    out,              \* the envelopes the consumer has received, in order
    outInst,          \* for each envelope of out, the instance it was emitted for
    pulls,            \* number of next() calls of the consumer
    exc,              \* the exception in flight (its message), or NoExc
    metadata,         \* _predict_video: metadata
    frame_count,      \* _predict_video: frame_count
    frame_number,     \* _predict_video: frame_number of the current frame
    frame,            \* _predict_video: the current frame's pixels
    temp_path,        \* _predict_video: temp_path
    cap,              \* extract_frames_at_fps: "none", or "open" (handle held)
    frame_interval,   \* extract_frames_at_fps: frame_interval
    frame_idx,        \* extract_frames_at_fps: frame_idx
    extracted_count,  \* extract_frames_at_fps: extracted_count
    tempFiles,        \* the frame files that exist in the temp directory
    tmpSeq,           \* serial of the next temp file name
    unreleased,       \* instances whose decoder handle was dropped unreleased
    image_attempts,   \* calls of _predict_single_image on a still image so far
    frame_attempts,   \* calls of _predict_single_image on a frame file so far
    sampled,          \* frames the sampler has handed to _predict_video so far
    arg,              \* a helper function called on its own: the call's arguments
    result            \* ... and what the call returned or raised

vars == <<request, i, pc, control, out, outInst, pulls, exc, metadata,
          frame_count, frame_number, frame, temp_path, cap, frame_interval,
          frame_idx, extracted_count, tempFiles, tmpSeq, unreleased,
          image_attempts, frame_attempts, sampled, arg, result>>

\* the locals of _predict_video and of the sampler
videoVars == <<metadata, frame_count, frame_number, frame, temp_path>>
samplerVars == <<cap, frame_interval, frame_idx, extracted_count>>
counters == <<image_attempts, frame_attempts, sampled>>
attempts == image_attempts + frame_attempts

NoPath == MkPath("", "")
NoExc == [what |-> "none", path |-> NoPath]
NoMetadata == [fps |-> 0, duration |-> <<0, 1>>]
\* no helper function is being called on its own
NoArg == [fn |-> "none"]
NoResult == [raised |-> FALSE, what |-> "none"]

\* the loop variables of predict_with_video_support (lines 183-184)
filepath == request[i].filepath
sample_fps == SampleFps(request[i])

MODEL_VERSION == "1.0"
EmptyDict == << >>

\* ------------------------------------------------------ detection helpers
\* (detection_utils.py; run_manas_server.py and run_deepfaune_server.py hold
\* the same functions)
Min(a, b) == IF a <= b THEN a ELSE b
Max(a, b) == IF a >= b THEN a ELSE b

\* Python's None
None == [none |-> TRUE]

\* the values of a dict (or list)
Values(f) == {f[x] : x \in DOMAIN f}

\* (mutant) an item is put in front of the items of equal key
InsertDescending_BeforeEqual(s, x) ==
    LET before == SelectSeq(s, LAMBDA y : y.key > x.key)
    IN  before \o <<x>> \o SubSeq(s, Len(before) + 1, Len(s))

\* one step of the stable descending sort: x goes behind every item whose key
\* is not smaller
InsertDescending(s, x) ==
    LET before == SelectSeq(s, LAMBDA y : y.key >= x.key)
    IN  before \o <<x>> \o SubSeq(s, Len(before) + 1, Len(s))

\* sorted(items, key=..., reverse=True): descending by key, items of equal key
\* in their input order (the sort is stable, also when reversed)
RECURSIVE SortedReverse(_)
SortedReverse(items) ==
    IF items = << >> THEN << >>
    ELSE InsertDescending(SortedReverse(SubSeq(items, 1, Len(items) - 1)),
                          items[Len(items)])

\* s[:k]
SliceTo(s, k) ==
    IF k >= 0 THEN SubSeq(s, 1, Min(k, Len(s)))
    ELSE SubSeq(s, 1, IF Len(s) + k > 0 THEN Len(s) + k ELSE 0)

to_detection_record(conf, class_instance, xywhn, xyxy, class_label_mapping) ==
    [class |-> class_instance, label |-> class_label_mapping[class_instance],
     conf |-> conf, xyxy |-> xyxy, xywhn |-> xywhn]

\* (mutant) the label is not looked at
select_best_animal_detection_AnyLabel(detection_records) ==
    LET sorted_records == SortedReverse([n \in DOMAIN detection_records |->
                              [key |-> detection_records[n].conf, val |-> detection_records[n]]])
    IN  IF sorted_records = << >> THEN None ELSE sorted_records[1].val

select_best_animal_detection(detection_records) ==
    LET animal_records == SelectSeq(detection_records, LAMBDA r : r.label = "animal")
        sorted_animal_records ==
            SortedReverse([n \in DOMAIN animal_records |->
                              [key |-> animal_records[n].conf, val |-> animal_records[n]]])
    IN  IF sorted_animal_records = << >> THEN None ELSE sorted_animal_records[1].val

\* the default of the parameter k
DefaultK == 5

\* scores[j] and class_label_mapping[j] for the 0-based index j
to_classifications_record(scores, class_label_mapping, k) ==
    LET top_k_indices ==
            SliceTo(SortedReverse([n \in DOMAIN scores |-> [key |-> scores[n], val |-> n - 1]]), k)
    IN  [labels |-> [n \in DOMAIN top_k_indices |-> class_label_mapping[top_k_indices[n].val]],
         scores |-> [n \in DOMAIN top_k_indices |-> scores[top_k_indices[n].val + 1]]]

\* what a call of a helper gives: a value, or an exception
Returned(value) == [raised |-> FALSE, what |-> "return", value |-> value]
Raised(what) == [raised |-> TRUE, what |-> what]

\* new_predictions = {p["filepath"]: p for p in predictions}, as the list of
\* its values: one entry per distinct filepath, at the place of the first
\* prediction with that filepath, holding the last one
KeyedByFilepath(predictions) ==
    LET firsts == {n \in DOMAIN predictions :
                      \A m \in 1..(n - 1) : predictions[m].filepath # predictions[n].filepath}
        Last(fp) == CHOOSE n \in DOMAIN predictions :
                       /\ predictions[n].filepath = fp
                       /\ \A m \in (n + 1)..Len(predictions) : predictions[m].filepath # fp
        kept == SelectSeq([n \in DOMAIN predictions |-> n], LAMBDA n : n \in firsts)
    IN  [n \in DOMAIN kept |-> predictions[Last(predictions[kept[n]].filepath)]]

\* (mutant) the value is put on every prediction
SetField_All(entries, fp, field, value) ==
    [n \in DOMAIN entries |-> (field :> value) @@ entries[n]]

\* (mutant) the copy also resets the prediction
SetField_Clobber(entries, fp, field, value) ==
    [n \in DOMAIN entries |->
        IF entries[n].filepath = fp
        THEN (field :> value) @@ [entries[n] EXCEPT !.prediction = "unknown"]
        ELSE entries[n]]

\* new_predictions[fp][field] = value
SetField(entries, fp, field, value) ==
    [n \in DOMAIN entries |->
        IF entries[n].filepath = fp THEN (field :> value) @@ entries[n] ELSE entries[n]]

\* the inner loop: for field in extra_fields, for one instance; indexing
\* new_predictions with a filepath it does not hold raises KeyError
RECURSIVE PropagateFields(_, _, _)
PropagateFields(st, instance, fields) ==
    IF st.raised \/ fields = << >> THEN st
    ELSE LET field == Head(fields)
         IN  IF field \notin DOMAIN instance
             THEN PropagateFields(st, instance, Tail(fields))
             ELSE IF \A n \in DOMAIN st.entries : st.entries[n].filepath # instance.filepath
             THEN [st EXCEPT !.raised = TRUE]
             ELSE PropagateFields(
                      [st EXCEPT !.entries = SetField(st.entries, instance.filepath,
                                                      field, instance[field])],
                      instance, Tail(fields))

\* (mutant) the instances are gone through from the last to the first
RECURSIVE PropagateInstances_Reverse(_, _, _)
PropagateInstances_Reverse(st, instances, fields) ==
    IF st.raised \/ instances = << >> THEN st
    ELSE PropagateInstances_Reverse(
             PropagateFields(st, instances[Len(instances)], fields),
             SubSeq(instances, 1, Len(instances) - 1), fields)

\* the outer loop: for instance in instances_dict["instances"]
RECURSIVE PropagateInstances(_, _, _)
PropagateInstances(st, instances, fields) ==
    IF st.raised \/ instances = << >> THEN st
    ELSE PropagateInstances(PropagateFields(st, Head(instances), fields),
                            Tail(instances), fields)

propagate_extra_fields(extra_fields, instances_dict, predictions_dict) ==
    LET new_predictions == KeyedByFilepath(predictions_dict.predictions)
        st == PropagateInstances([raised |-> FALSE, entries |-> new_predictions],
                                 instances_dict.instances, extra_fields)
    IN  IF st.raised THEN Raised("KeyError") ELSE Returned([predictions |-> st.entries])

\* ------------------------------------- crop_square_cv_to_pil(array_image, xyxy)
\* Box coordinates are floats (xyxy: list[float]); the model counts them in
\* half pixels, so 3 is 1.5 px.  An array is known by its shape, (height,
\* width) or (height, width, channels), in pixels; a crop by the rows and
\* columns of the array it holds, as half-open ranges.

\* n pixels, in half pixels
Px(n) == 2 * n

\* int(v) of a coordinate: truncation toward zero, in pixels
int(v) == IF v >= 0 THEN v \div 2 ELSE 0 - ((0 - v) \div 2)

\* int(d / 2) of a difference of coordinates, in pixels
int_half(d) == IF d >= 0 THEN d \div 4 ELSE 0 - ((0 - d) \div 4)

\* (mutant) the box is squared by the whole difference on each side
SquaredBox_Whole(xyxy) ==
    LET xsize == xyxy[3] - xyxy[1]
        ysize == xyxy[4] - xyxy[2]
    IN  IF xsize > ysize
        THEN <<xyxy[1], xyxy[2] - Px(int(xsize - ysize)), xyxy[3], xyxy[4] + Px(int(xsize - ysize))>>
        ELSE IF ysize > xsize
        THEN <<xyxy[1] - Px(int(ysize - xsize)), xyxy[2], xyxy[3] + Px(int(ysize - xsize)), xyxy[4]>>
        ELSE xyxy

\* x1, y1, x2, y2 after the two `if`s that square the box
SquaredBox(xyxy) ==
    LET x1 == xyxy[1]
        y1 == xyxy[2]
        x2 == xyxy[3]
        y2 == xyxy[4]
        xsize == x2 - x1
        ysize == y2 - y1
    IN  IF xsize > ysize
        THEN <<x1, y1 - Px(int_half(xsize - ysize)), x2, y2 + Px(int_half(xsize - ysize))>>
        ELSE IF ysize > xsize
        THEN <<x1 - Px(int_half(ysize - xsize)), y1, x2 + Px(int_half(ysize - xsize)), y2>>
        ELSE <<x1, y1, x2, y2>>

\* a[start:stop] along an axis of dim elements, start >= 0: a negative stop
\* counts from the end of the axis; the indices kept are lo..hi-1
PySlice(start, stop, dim) ==
    LET hi == IF stop < 0 THEN Max(stop + dim, 0) ELSE Min(stop, dim)
        lo == Min(start, dim)
    IN  <<lo, Max(lo, hi)>>

\* height, width, _ = array_image.shape  (ValueError unless the array has
\* three axes), then array_image[max(0, int(y1)) : min(int(y2), height),
\*                              max(0, int(x1)) : min(int(x2), width)]
CroppedImageCv(array_image, xyxy) ==
    IF Len(array_image.shape) # 3 THEN Raised("ValueError")
    ELSE LET box == SquaredBox(xyxy)
             height == array_image.shape[1]
             width == array_image.shape[2]
         IN  Returned([rows |-> PySlice(Max(0, int(box[2])), Min(int(box[4]), height), height),
                       cols |-> PySlice(Max(0, int(box[1])), Min(int(box[3]), width), width),
                       channels |-> array_image.shape[3]])

\* Image.fromarray(array): an RGB image of size (columns, rows); what it
\* does with an array without rows or columns depends on the Pillow
\* installed (an empty image, or ValueError)
fromarray(array) ==
    LET im == [rows |-> array.rows, cols |-> array.cols, mode |-> "RGB",
               size |-> <<array.cols[2] - array.cols[1], array.rows[2] - array.rows[1]>>]
    IN  IF im.size[1] = 0 \/ im.size[2] = 0
        THEN {Returned(im), Raised("ValueError")}
        ELSE {Returned(im)}

\* the outcomes of crop_square_cv_to_pil; croppedimagecv[:, :, (2, 1, 0)]
\* raises IndexError on an array of fewer than three channels
crop_square_cv_to_pil(array_image, xyxy) ==
    LET croppedimagecv == CroppedImageCv(array_image, xyxy)
    IN  IF croppedimagecv.raised THEN {croppedimagecv}
        ELSE IF croppedimagecv.value.channels < 3 THEN {Raised("IndexError")}
        ELSE fromarray(croppedimagecv.value)

\* ------------------------------------------- predict(model, filepath)
\* An image file, as far as predict is concerned: the boxes the detector
\* finds in it (conf, cls, xywhn, xyxy, in detector order), its height and
\* width and the channels of its pixels (1: grayscale, 3: colour, 4: colour
\* with alpha).
\* cv2.imdecode(..., flag): IMREAD_COLOR always gives a 3-channel array,
\* IMREAD_UNCHANGED the channels of the file, a grayscale file as a 2-D array.
imdecode(image, flag) ==
    [shape |-> IF flag = "IMREAD_COLOR" THEN <<image.height, image.width, 3>>
               ELSE IF image.channels = 1 THEN <<image.height, image.width>>
               ELSE <<image.height, image.width, image.channels>>]

\* detections.names of the detector
DetectorNames == (0 :> "animal") @@ (1 :> "person") @@ (2 :> "vehicle")

\* detection_records = [to_detection_record(...) for ... in zip(...)]
DetectionRecords(bboxes) ==
    [n \in DOMAIN bboxes |->
        to_detection_record(bboxes[n].conf, bboxes[n].cls, bboxes[n].xywhn,
                            bboxes[n].xyxy, DetectorNames)]

\* what predict gives: its return value or its exception, and the crops the
\* classifier was called on
Predicted(path, classifications, detections, prediction, model_version) ==
    [filepath |-> path, classifications |-> classifications,
     detections |-> detections, prediction |-> prediction,
     model_version |-> model_version]

\* xyxy = selected_detection_record["xyxy"]
SelectedBox(detection_records, selected_detection_record) ==
    selected_detection_record.xyxy

\* (mutant) the blank record carries a score
BlankRecord_Scored(path, detection_records, prediction, model_version) ==
    ("prediction_score" :> 0) @@
    Predicted(path, EmptyDict, detection_records, prediction, model_version)

\* the record of an image without detections
BlankRecord(path, detection_records, prediction, model_version) ==
    Predicted(path, EmptyDict, detection_records, prediction, model_version)

\* (mutant) the most confident detection is reported
FirstDetection_MostConfident(detection_records) ==
    select_best_animal_detection_AnyLabel(detection_records)

\* detection_records[0]
FirstDetection(detection_records) == detection_records[1]

\* (mutant) only the selected detection is reported
ReportedDetections_Selected(detection_records, selected_detection_record) ==
    <<selected_detection_record>>

\* "detections": detection_records, in the record of a classified image
ReportedDetections(detection_records, selected_detection_record) ==
    detection_records

\* the record of an image with detections, none of them an animal
NonAnimalRecord(path, detection_records, model_version) ==
    ("prediction_score" :> FirstDetection(detection_records).conf) @@
    Predicted(path, EmptyDict, detection_records,
              FirstDetection(detection_records).label, model_version)

\* what the crop-and-classify branch gives once the crop is made (or failed):
\* classify the crop, keep the top DefaultK classes.  `classified` is the
\* boxes whose crop the classifier was called on, `decoded` the shapes of the
\* arrays crop_square_cv_to_pil was called on.
Classified(model, path, detection_records, selected_detection_record, imagecv, croppedimage, model_version) ==
    LET xyxy == SelectedBox(detection_records, selected_detection_record)
    IN  IF croppedimage.raised
        THEN [raised |-> TRUE, what |-> croppedimage.what, classified |-> << >>,
              decoded |-> <<imagecv.shape>>]
        ELSE LET scores == model.classifier[xyxy]
                 classifications_record ==
                     to_classifications_record(scores, model.class_label_mapping, DefaultK)
             IN  [raised |-> FALSE, what |-> "return",
                  classified |-> <<xyxy>>, decoded |-> <<imagecv.shape>>,
                  value |-> [predictions |-> <<
                      ("prediction_score" :> classifications_record.scores[1]) @@
                      Predicted(path, classifications_record,
                                ReportedDetections(detection_records,
                                                   selected_detection_record),
                                classifications_record.labels[1], model_version)>>]]

\* the crop-and-classify branch, common to both servers but for the decoding
\* flag: decode, crop around the selected box, classify the crop
ClassifyBranch(model, image, path, detection_records, selected_detection_record, flag, model_version) ==
    LET xyxy == SelectedBox(detection_records, selected_detection_record)
        imagecv == imdecode(image, flag)
    IN  {Classified(model, path, detection_records, selected_detection_record,
                    imagecv, croppedimage, model_version) :
            croppedimage \in crop_square_cv_to_pil(imagecv, xyxy)}

NotClassified(record) ==
    {[raised |-> FALSE, what |-> "return", classified |-> << >>, decoded |-> << >>,
      value |-> [predictions |-> <<record>>]]}

\* run_manas_server.py
predict_manas(model, image, path) ==
    LET class_label_mapping == model.class_label_mapping
        detection_records == DetectionRecords(image.bboxes)
        selected_detection_record == select_best_animal_detection(detection_records)
    IN  IF selected_detection_record = None
        THEN LET vide_prediction ==
                     IF "vide" \in Values(class_label_mapping) THEN "vide" ELSE "blank"
             IN  IF detection_records = << >>
                 THEN NotClassified(BlankRecord(path, detection_records,
                                                vide_prediction, MODEL_VERSION))
                 ELSE NotClassified(NonAnimalRecord(path, detection_records,
                                                    MODEL_VERSION))
        ELSE ClassifyBranch(model, image, path, detection_records,
                            selected_detection_record, "IMREAD_COLOR", MODEL_VERSION)

\* run_deepfaune_server.py
predict_deepfaune(model, image, path) ==
    LET detection_records == DetectionRecords(image.bboxes)
        selected_detection_record == select_best_animal_detection(detection_records)
    IN  IF selected_detection_record = None
        THEN IF detection_records = << >>
             THEN NotClassified(BlankRecord(path, detection_records, "blank", "1.3"))
             ELSE NotClassified(NonAnimalRecord(path, detection_records, "1.3"))
        ELSE ClassifyBranch(model, image, path, detection_records,
                            selected_detection_record, "IMREAD_UNCHANGED", "1.3")

\* ---------------------------------------------------- single-image predictor
Missing == [decodable |-> FALSE, label |-> "missing", score |-> 0]

\* What reading `path` as an image gives: a still image of the disk, a frame
\* file of the temp directory, or nothing.
FileAt(path, temps) ==
    IF path \in DOMAIN ImageFiles THEN ImageFiles[path]
    ELSE IF path \in RoutedPaths THEN Image("deer", 90)
    ELSE IF \E f \in temps : f.path = path
         THEN (CHOOSE f \in temps : f.path = path).content
         ELSE Missing

\* predict(model, filepath) of the servers, with the detector and classifier
\* abstracted to what the image holds: the blank record has no
\* prediction_score, the classified one has.
predict(path, content) ==
    IF content.label = "blank"
    THEN [filepath |-> path, classifications |-> EmptyDict, detections |-> << >>,
          prediction |-> "blank", model_version |-> MODEL_VERSION]
    ELSE [filepath |-> path,
          classifications |-> [labels |-> <<content.label>>, scores |-> <<content.score>>],
          detections |-> <<[label |-> "animal", conf |-> content.score]>>,
          prediction |-> content.label, prediction_score |-> content.score,
          model_version |-> MODEL_VERSION]

\* self.extra_fields: the server was started with --extra_fields=camera_id
self_extra_fields == <<"camera_id">>

\* _predict_single_image(filepath): {"predictions": [one record]}, or an
\* exception of the detector / decoder when the file is missing or corrupt
\* (its message is the library's; only its kind is kept).
PredictSingleImage(path, temps) ==
    LET content == FileAt(path, temps)
        single_instances_dict == [instances |-> <<[filepath |-> path]>>]
        single_predictions_dict == [predictions |-> <<predict(path, content)>>]
    IN  IF content.decodable
        THEN [raised |-> FALSE, exc |-> NoExc,
              predictions |-> propagate_extra_fields(self_extra_fields,
                                  single_instances_dict,
                                  single_predictions_dict).value.predictions]
        ELSE [raised |-> TRUE,
              exc |-> [what |-> IF content = Missing THEN "No such file"
                                ELSE "Cannot decode image",
                       path |-> NoPath],
              predictions |-> << >>]

\* ------------------------------------------------------------- video helpers
\* get_video_metadata: {"fps": fps, "duration": frame_count / fps if fps > 0
\* else 0}; the quotient is kept exact as <<numerator, denominator>>.
VideoMetadataOf(v) ==
    [fps |-> v.fps,
     duration |-> IF v.fps > 0 THEN <<v.frame_count, v.fps>> ELSE <<0, 1>>]


\* (mutant) the quotient is rounded up
FrameInterval_Ceil(original_fps, target_fps) ==
    Max(1, (original_fps + target_fps - 1) \div target_fps)

\* max(1, int(original_fps / target_fps)), for a positive target_fps
FrameInterval(original_fps, target_fps) == Max(1, original_fps \div target_fps)

\* (mutant) the filepath of the prediction is left as the predictor set it
WithVideoContext_KeepPath(pred, video_path, fnum, meta) ==
    ("frame_number" :> fnum) @@ ("metadata" :> meta) @@ pred

\* (mutant) only the first frame's prediction gets the video's path
WithVideoContext_FirstFrameOnly(pred, video_path, fnum, meta) ==
    ("frame_number" :> fnum) @@ ("metadata" :> meta) @@
    (IF fnum = 0 THEN [pred EXCEPT !.filepath = video_path] ELSE pred)

\* the video context _predict_video puts on a prediction (lines 240-243)
WithVideoContext(pred, video_path, fnum, meta) ==
    ("frame_number" :> fnum) @@ ("metadata" :> meta) @@
    [pred EXCEPT !.filepath = video_path]

\* (mutant) the synthetic record without its empty detections
ErrorRecord_NoDetections(fp, e) ==
    [filepath |-> fp, prediction |-> "error", prediction_score |-> 0,
     error |-> e, classifications |-> EmptyDict]

\* the synthetic record of the except clause (lines 194-205)
ErrorRecord(fp, e) ==
    [filepath |-> fp, prediction |-> "error", prediction_score |-> 0,
     error |-> e, classifications |-> EmptyDict, detections |-> << >>]

Envelope(predictions) == [predictions |-> predictions]

\* ------------------------------------------------------------------- Init
\* Nothing has run yet: no record emitted, no file or handle held.
Fresh ==
    /\ i = 0
    /\ control = "consumer"
    /\ out = << >>
    /\ outInst = << >>
    /\ pulls = 0
    /\ exc = NoExc
    /\ metadata = NoMetadata
    /\ frame_count = 0
    /\ frame_number = 0
    /\ frame = Missing
    /\ temp_path = NoPath
    /\ cap = "none"
    /\ frame_interval = 1
    /\ frame_idx = 0
    /\ extracted_count = 0
    /\ tempFiles = {}
    /\ tmpSeq = 0
    /\ unreleased = {}
    /\ image_attempts = 0
    /\ frame_attempts = 0
    /\ sampled = 0
    /\ result = NoResult

\* predict_with_video_support(x) has been called: the generator object exists
\* and has not run yet.
Init ==
    /\ request \in Requests
    /\ pc = "loop"
    /\ arg = NoArg
    /\ Fresh

\* -------------------------------------------------------- generator protocol
Suspended == control = "consumer" /\ pc \in {"loop", "yield_image", "yield_frame", "yield_error"}
Running == control = "generator"

\* (mutant) the envelope is produced but the generator does not suspend
Yield_NoSuspend(env) ==
    /\ out' = Append(out, env)
    /\ outInst' = Append(outInst, i)
    /\ control' = control

\* `yield env`: hand one envelope to the consumer and suspend.
Yield(env) ==
    /\ out' = Append(out, env)
    /\ outInst' = Append(outInst, i)
    /\ control' = "consumer"

\* The sampler generator is dropped while suspended at its yield (line 120):
\* nothing in the code calls cap.release() on that path.  Whether the handle
\* is closed at once by the finalizer of the dropped object or stays open
\* until the collector runs is up to the runtime.
AbandonSampler ==
    /\ cap' = "none"
    /\ \E finalized \in BOOLEAN :
          unreleased' = IF finalized THEN unreleased ELSE unreleased \cup {i}

\* (mutant) the temp file is left behind
DeleteTemp_Skip == tempFiles' = tempFiles

\* the finally clause of _predict_video (lines 247-250)
DeleteTemp == tempFiles' = {f \in tempFiles : f.path # temp_path}

\* ----------------------------------------------------------------- consumer
\* next(generator)
Pull ==
    /\ Suspended
    /\ control' = "generator"
    /\ pulls' = pulls + 1
    /\ UNCHANGED <<arg, result, request, i, pc, out, outInst, exc, videoVars, samplerVars,
                   tempFiles, tmpSeq, unreleased, counters>>

\* (mutant) the cleanup is not in a finally clause: closing skips it
Close_NoFinally ==
    /\ Suspended
    /\ pc' = "closed"
    /\ IF pc = "yield_frame"
       THEN AbandonSampler /\ UNCHANGED tempFiles
       ELSE UNCHANGED <<tempFiles, cap, unreleased>>
    /\ UNCHANGED <<arg, result, request, i, control, out, outInst, pulls, exc, videoVars,
                   frame_interval, frame_idx, extracted_count, tmpSeq, counters>>

\* generator.close(): GeneratorExit is raised at the yield the generator is
\* suspended at.  `except Exception` does not catch it; the finally clause of
\* a frame runs; the sampler is dropped.
Close ==
    /\ Suspended
    /\ pc' = "closed"
    /\ IF pc = "yield_frame"
       THEN DeleteTemp /\ AbandonSampler
       ELSE UNCHANGED <<tempFiles, cap, unreleased>>
    /\ UNCHANGED <<arg, result, request, i, control, out, outInst, pulls, exc, videoVars,
                   frame_interval, frame_idx, extracted_count, tmpSeq, counters>>

\* ---------------------------------------------- predict_with_video_support
\* for instance in x["instances"]: the loop takes its next instance, or ends
\* the generator; is_video_file picks the branch (lines 182-189).
ForInstance ==
    /\ Running
    /\ pc \in {"loop", "yield_image", "yield_error", "video_end"}
    /\ IF i + 1 > Len(request)
       THEN /\ pc' = "done"
            /\ control' = "consumer"
            /\ i' = i
       ELSE /\ i' = i + 1
            /\ pc' = IF is_video_file(request[i + 1].filepath) THEN "video" ELSE "image"
            /\ control' = control
    /\ UNCHANGED <<arg, result, request, out, outInst, pulls, exc, videoVars, samplerVars,
                   tempFiles, tmpSeq, unreleased, counters>>

\* yield self._predict_single_image(filepath) (line 191)
PredictImage ==
    /\ Running
    /\ pc = "image"
    /\ image_attempts' = image_attempts + 1
    /\ LET r == PredictSingleImage(filepath, tempFiles)
       IN  IF r.raised
           THEN /\ pc' = "raising"
                /\ exc' = r.exc
                /\ UNCHANGED <<out, outInst, control>>
           ELSE /\ pc' = "yield_image"
                /\ Yield(Envelope(r.predictions))
                /\ exc' = exc
    /\ UNCHANGED <<arg, result, request, i, pulls, videoVars, samplerVars, tempFiles,
                   tmpSeq, unreleased, frame_attempts, sampled>>

\* (mutant) the handler swallows the exception without a record
ExceptHandler_Silent ==
    /\ Running
    /\ pc = "raising"
    /\ pc' = "video_end"
    /\ exc' = NoExc
    /\ UNCHANGED <<arg, result, request, i, control, out, outInst, pulls, videoVars,
                   samplerVars, tempFiles, tmpSeq, unreleased, counters>>

\* (mutant) no handler at the instance boundary: the exception leaves the
\* generator
ExceptHandler_Reraise ==
    /\ Running
    /\ pc = "raising"
    /\ pc' = "raised"
    /\ control' = "consumer"
    /\ UNCHANGED <<arg, result, request, i, out, outInst, pulls, exc, videoVars, samplerVars,
                   tempFiles, tmpSeq, unreleased, counters>>

\* except Exception as e: log, yield the error record (lines 192-205)
ExceptHandler ==
    /\ Running
    /\ pc = "raising"
    /\ pc' = "yield_error"
    /\ Yield(Envelope(<<ErrorRecord(filepath, exc)>>))
    /\ exc' = NoExc
    /\ UNCHANGED <<arg, result, request, i, pulls, videoVars, samplerVars, tempFiles,
                   tmpSeq, unreleased, counters>>

\* ------------------------------------------------------------ _predict_video
\* metadata = get_video_metadata(video_path); frame_count = 0 (lines 223-226)
GetVideoMetadata ==
    /\ Running
    /\ pc = "video"
    /\ LET v == VideoAt(filepath)
       IN  IF ~v.opens
           THEN /\ pc' = "raising"
                /\ exc' = [what |-> "Cannot open video", path |-> filepath]
                /\ UNCHANGED <<metadata, frame_count>>
           ELSE /\ pc' = "frames_open"
                /\ metadata' = VideoMetadataOf(v)
                /\ frame_count' = 0
                /\ exc' = exc
    /\ UNCHANGED <<arg, result, request, i, control, out, outInst, pulls, frame_number, frame,
                   temp_path, samplerVars, tempFiles, tmpSeq, unreleased, counters>>

\* (mutant) the reported frame rate is not checked
FramesOpen_NoFpsCheck ==
    /\ Running
    /\ pc = "frames_open"
    /\ LET v == VideoAt(filepath)
       IN  IF ~v.opens
           THEN /\ pc' = "raising"
                /\ exc' = [what |-> "Cannot open video", path |-> filepath]
                /\ UNCHANGED samplerVars
           ELSE /\ pc' = "frames_read"
                /\ cap' = "open"
                /\ frame_interval' = FrameInterval(v.fps, sample_fps)
                /\ frame_idx' = 0
                /\ extracted_count' = 0
                /\ exc' = exc
    /\ UNCHANGED <<arg, result, request, i, control, out, outInst, pulls, videoVars,
                   tempFiles, tmpSeq, unreleased, counters>>

\* the sampler up to its loop (lines 99-112), run by the first next() of the
\* for statement of line 227
FramesOpen ==
    /\ Running
    /\ pc = "frames_open"
    /\ LET v == VideoAt(filepath)
       IN  IF ~v.opens
           THEN /\ pc' = "raising"
                /\ exc' = [what |-> "Cannot open video", path |-> filepath]
                /\ UNCHANGED samplerVars
           ELSE IF v.fps <= 0
           THEN \* cap.release() before the raise
                /\ pc' = "raising"
                /\ exc' = [what |-> "Invalid FPS for video", path |-> filepath]
                /\ UNCHANGED samplerVars
           ELSE /\ pc' = "frames_read"
                /\ cap' = "open"
                /\ frame_interval' = FrameInterval(v.fps, sample_fps)
                /\ frame_idx' = 0
                /\ extracted_count' = 0
                /\ exc' = exc
    /\ UNCHANGED <<arg, result, request, i, control, out, outInst, pulls, videoVars,
                   tempFiles, tmpSeq, unreleased, counters>>

\* one turn of the sampler's while loop (lines 114-125): read a frame; at the
\* end of the video release the handle and finish, which ends the for loop of
\* _predict_video and the yield from of line 188
FramesRead ==
    /\ Running
    /\ pc = "frames_read"
    /\ LET v == VideoAt(filepath)
       IN  IF frame_idx >= Len(v.frames)
           THEN /\ cap' = "none"
                /\ pc' = "video_end"
                /\ UNCHANGED <<frame_idx, frame, frame_number, sampled>>
           ELSE IF frame_idx % frame_interval = 0
           THEN /\ frame' = v.frames[frame_idx + 1]
                /\ frame_number' = extracted_count
                /\ sampled' = sampled + 1
                /\ pc' = "frame_save"
                /\ UNCHANGED <<cap, frame_idx>>
           ELSE /\ frame_idx' = frame_idx + 1
                /\ UNCHANGED <<cap, pc, frame, frame_number, sampled>>
    /\ UNCHANGED <<arg, result, request, i, control, out, outInst, pulls, exc, metadata,
                   frame_count, temp_path, frame_interval, extracted_count,
                   tempFiles, tmpSeq, unreleased, image_attempts, frame_attempts>>

\* (mutant) extracted_count is not advanced
FramesResume_NoCount ==
    /\ Running
    /\ pc = "frames_resume"
    /\ frame_idx' = frame_idx + 1
    /\ pc' = "frames_read"
    /\ UNCHANGED <<arg, result, request, i, control, out, outInst, pulls, exc, videoVars,
                   cap, frame_interval, extracted_count, tempFiles, tmpSeq,
                   unreleased, counters>>

\* the sampler resumed after its yield (lines 121-123)
FramesResume ==
    /\ Running
    /\ pc = "frames_resume"
    /\ extracted_count' = extracted_count + 1
    /\ frame_idx' = frame_idx + 1
    /\ pc' = "frames_read"
    /\ UNCHANGED <<arg, result, request, i, control, out, outInst, pulls, exc, videoVars,
                   cap, frame_interval, tempFiles, tmpSeq, unreleased, counters>>

\* frame_count += 1; write the frame to a fresh temp file (lines 228-232)
SaveFrame ==
    /\ Running
    /\ pc = "frame_save"
    /\ frame_count' = frame_count + 1
    /\ temp_path' = TempName(tmpSeq)
    /\ tmpSeq' = tmpSeq + 1
    /\ tempFiles' = tempFiles \cup {[path |-> TempName(tmpSeq), content |-> frame]}
    /\ pc' = "frame_predict"
    /\ UNCHANGED <<arg, result, request, i, control, out, outInst, pulls, exc, metadata,
                   frame_number, frame, samplerVars, unreleased, counters>>

\* (mutant) a frame whose prediction raises is skipped and the video goes on
PredictFrame_SkipFrame ==
    /\ Running
    /\ pc = "frame_predict"
    /\ frame_attempts' = frame_attempts + 1
    /\ LET r == PredictSingleImage(temp_path, tempFiles)
           predictions == [k \in DOMAIN r.predictions |->
                              WithVideoContext(r.predictions[k], filepath,
                                               frame_number, metadata)]
       IN  IF r.raised
           THEN /\ DeleteTemp
                /\ pc' = "frames_resume"
                /\ UNCHANGED <<out, outInst, control, cap, unreleased, exc>>
           ELSE /\ pc' = "yield_frame"
                /\ Yield(Envelope(predictions))
                /\ UNCHANGED <<tempFiles, cap, unreleased, exc>>
    /\ UNCHANGED <<arg, result, request, i, pulls, videoVars, frame_interval, frame_idx,
                   extracted_count, tmpSeq, image_attempts, sampled>>

\* the try block of a frame (lines 234-245): predict on the temp file, put the
\* video context on the predictions and yield them; when the prediction
\* raises, the finally clause deletes the temp file and the exception leaves
\* _predict_video, dropping the suspended sampler
PredictFrame ==
    /\ Running
    /\ pc = "frame_predict"
    /\ frame_attempts' = frame_attempts + 1
    /\ LET r == PredictSingleImage(temp_path, tempFiles)
           predictions == [k \in DOMAIN r.predictions |->
                              WithVideoContext(r.predictions[k], filepath,
                                               frame_number, metadata)]
       IN  IF r.raised
           THEN /\ DeleteTemp
                /\ AbandonSampler
                /\ pc' = "raising"
                /\ exc' = r.exc
                /\ UNCHANGED <<out, outInst, control>>
           ELSE /\ pc' = "yield_frame"
                /\ Yield(Envelope(predictions))
                /\ UNCHANGED <<tempFiles, cap, unreleased, exc>>
    /\ UNCHANGED <<arg, result, request, i, pulls, videoVars, frame_interval, frame_idx,
                   extracted_count, tmpSeq, image_attempts, sampled>>

\* resumed after the yield of a frame: the finally clause (lines 247-250),
\* then the for statement asks the sampler for the next frame
FrameFinally ==
    /\ Running
    /\ pc = "yield_frame"
    /\ DeleteTemp
    /\ pc' = "frames_resume"
    /\ UNCHANGED <<arg, result, request, i, control, out, outInst, pulls, exc, videoVars,
                   samplerVars, tmpSeq, unreleased, counters>>

\* ------------------------------------------------------------------ runtime
\* The collector finalizes a decoder handle that was dropped unreleased.
Finalize ==
    /\ \E h \in unreleased : unreleased' = unreleased \ {h}
    /\ UNCHANGED <<arg, result, request, i, pc, control, out, outInst, pulls, exc, videoVars,
                   samplerVars, tempFiles, tmpSeq, counters>>

Next ==
    \/ Pull
    \/ Close
    \/ ForInstance
    \/ PredictImage
    \/ ExceptHandler
    \/ GetVideoMetadata
    \/ FramesOpen
    \/ FramesRead
    \/ FramesResume
    \/ SaveFrame
    \/ PredictFrame
    \/ FrameFinally
    \/ Finalize

Spec == Init /\ [][Next]_vars

\* A consumer that keeps pulling and never closes the stream: the generator
\* runs whenever it has control, and the consumer always asks for more.
GenStep ==
    \/ ForInstance
    \/ PredictImage
    \/ ExceptHandler
    \/ GetVideoMetadata
    \/ FramesOpen
    \/ FramesRead
    \/ FramesResume
    \/ SaveFrame
    \/ PredictFrame
    \/ FrameFinally

NextPulling ==
    \/ Pull
    \/ GenStep
    \/ Finalize

PullSpec == Init /\ [][NextPulling]_vars /\ WF_vars(Pull) /\ WF_vars(GenStep)

\* ------------------------------------------------ the sampler on its own
\* One video instance: a clip of SamplerVideos, read at sample_fps frames per
\* second by a consumer that drains the stream.
SamplerRequests ==
    {<<[filepath |-> SamplerPath(fps, nframes), sample_fps |-> target_fps]>> :
        fps \in 1..MaxFps, nframes \in 0..MaxSourceFrames, target_fps \in 1..MaxTarget}

InitSampler ==
    /\ request \in SamplerRequests
    /\ pc = "loop"
    /\ arg = NoArg
    /\ Fresh

NextSampler ==
    \/ Pull
    \/ ForInstance
    \/ GetVideoMetadata
    \/ FramesOpen
    \/ FramesRead
    \/ FramesResume
    \/ SaveFrame
    \/ PredictFrame
    \/ FrameFinally

SamplerSpec == InitSampler /\ [][NextSampler]_vars

\* ------------------------------------------- requests told apart by name
\* Up to MaxRouted instances, each a file of RoutedPaths or the missing
\* still image, drained by a consumer that keeps pulling.
RoutedInstances ==
    {[filepath |-> p] : p \in RoutedPaths \cup MissingFiles}

InitRouting ==
    /\ request \in SeqsUpTo(RoutedInstances, MaxRouted) \ {<< >>}
    /\ pc = "loop"
    /\ arg = NoArg
    /\ Fresh

NextRouting ==
    \/ Pull
    \/ ForInstance
    \/ PredictImage
    \/ ExceptHandler
    \/ GetVideoMetadata
    \/ FramesOpen
    \/ FramesRead
    \/ FramesResume
    \/ SaveFrame
    \/ PredictFrame
    \/ FrameFinally

RoutingSpec == InitRouting /\ [][NextRouting]_vars

\* ------------------------------------- the DeepFaune and Manas servers
\* Both import VideoCapableLitAPI from video_utils, whose
\* predict_with_video_support has no try/except: an exception raised while
\* an instance is processed leaves the generator, which ends the stream.
\* (mutant) the exception is dropped and the loop takes the next instance
Propagate_Resume ==
    /\ Running
    /\ pc = "raising"
    /\ pc' = "video_end"
    /\ exc' = NoExc
    /\ UNCHANGED <<arg, result, request, i, control, out, outInst, pulls, videoVars,
                   samplerVars, tempFiles, tmpSeq, unreleased, counters>>

Propagate ==
    /\ Running
    /\ pc = "raising"
    /\ pc' = "raised"
    /\ control' = "consumer"
    /\ UNCHANGED <<arg, result, request, i, out, outInst, pulls, exc, videoVars, samplerVars,
                   tempFiles, tmpSeq, unreleased, counters>>

\* Path(filepath).exists()
Exists(path) == path \in DOMAIN ImageFiles \cup DOMAIN VideoFiles

\* decode_request: a still image that does not exist rejects the whole
\* request with HTTP 400 before predict is called.
DecodeRequest ==
    /\ pc = "request"
    /\ pc' = IF \E k \in 1..Len(request) :
                    /\ ~is_video_file(request[k].filepath)
                    /\ ~Exists(request[k].filepath)
             THEN "rejected"
             ELSE "loop"
    /\ UNCHANGED <<arg, result, request, i, control, out, outInst, pulls, exc, videoVars,
                   samplerVars, tempFiles, tmpSeq, unreleased, counters>>

InitServer ==
    /\ request \in Requests
    /\ pc = "request"
    /\ arg = NoArg
    /\ Fresh

NextServer ==
    \/ DecodeRequest
    \/ Pull
    \/ Close
    \/ ForInstance
    \/ PredictImage
    \/ Propagate
    \/ GetVideoMetadata
    \/ FramesOpen
    \/ FramesRead
    \/ FramesResume
    \/ SaveFrame
    \/ PredictFrame
    \/ FrameFinally
    \/ Finalize

ServerSpec == InitServer /\ [][NextServer]_vars

\* ------------------------------- the two copies of VideoCapableLitAPI
\* utils.py and video_utils.py each define the class; the two differ in the
\* try/except around the branch of predict_with_video_support.  `arg` tells
\* which of the two was instantiated.
Implementations == {[fn |-> "utils.VideoCapableLitAPI"], [fn |-> "video_utils.VideoCapableLitAPI"]}

\* Requests of a good and a corrupt still image, a good clip, a clip with a
\* corrupt frame and a file that does not open as a video.
EitherInstances ==
    {[filepath |-> p] :
        p \in {MkPath("a", ".jpg"), MkPath("bad", ".jpg"), MkPath("v", ".mp4"),
               MkPath("c", ".MP4"), MkPath("no", ".mkv")}}

InitEither ==
    /\ request \in SeqsUpTo(EitherInstances, MaxInstances) \ {<< >>}
    /\ pc = "loop"
    /\ arg \in Implementations
    /\ Fresh

\* The consumer keeps pulling and never closes the stream.
\* utils.py: except Exception as e: ... yield the error record
ExceptHandlerOfUtils == arg.fn = "utils.VideoCapableLitAPI" /\ ExceptHandler

\* video_utils.py: no handler
PropagateOfVideoUtils == arg.fn = "video_utils.VideoCapableLitAPI" /\ Propagate

NextEither ==
    \/ Pull
    \/ ForInstance
    \/ PredictImage
    \/ ExceptHandlerOfUtils
    \/ PropagateOfVideoUtils
    \/ GetVideoMetadata
    \/ FramesOpen
    \/ FramesRead
    \/ FramesResume
    \/ SaveFrame
    \/ PredictFrame
    \/ FrameFinally
    \/ Finalize

EitherSpec == InitEither /\ [][NextEither]_vars

\* --------------------------------------- the helpers called on their own
\* The boxes the detector can find (conf in percent; xywhn is the detector's
\* normalisation of the same box): two animals of equal confidence at two
\* places, a weaker animal, a person more confident than any animal, a
\* vehicle.
BoxA == <<10, 10, 50, 30>>
BoxB == <<0, 20, 20, 60>>

Candidate(conf, cls, xyxy) == [conf |-> conf, cls |-> cls, xywhn |-> xyxy, xyxy |-> xyxy]

DetectorCandidates ==
    {Candidate(90, 0, BoxA), Candidate(90, 0, BoxB), Candidate(50, 0, BoxA),
     Candidate(95, 1, BoxB), Candidate(50, 2, BoxA)}

DetectorOutputs == SeqsUpTo(DetectorCandidates, MaxDetections)

\* image files of 32 x 32 pixels: grayscale, colour, colour with alpha
ImageContents ==
    {[bboxes |-> b, channels |-> c, height |-> 32, width |-> 32] :
        b \in DetectorOutputs, c \in {1, 3, 4}}

\* CLASS_LABEL_MAPPING of DeepFaune, its first eight classes
CLASS_LABEL_MAPPING ==
    (0 :> "bison") @@ (1 :> "badger") @@ (2 :> "ibex") @@ (3 :> "beaver") @@
    (4 :> "red deer") @@ (5 :> "chamois") @@ (6 :> "cat") @@ (7 :> "goat")

\* load_class_mapping(...) of Manas: a class list without and one with "vide"
ManasClassMappings ==
    {CLASS_LABEL_MAPPING, [CLASS_LABEL_MAPPING EXCEPT ![3] = "vide"]}

\* classifier scores (percent) over the eight classes: one clear maximum, the
\* maximum shared by two classes, more than DefaultK classes above zero
ClassifierScores ==
    {<<5, 70, 5, 10, 0, 0, 5, 5>>,
     <<0, 40, 10, 40, 0, 5, 5, 0>>,
     <<10, 12, 14, 16, 18, 20, 5, 5>>}

\* model.classifier: the scores it gives the crop around each box
Classifiers == [{BoxA, BoxB} -> ClassifierScores]

Models ==
    {[server |-> "deepfaune", classifier |-> c, class_label_mapping |-> CLASS_LABEL_MAPPING] :
        c \in Classifiers}
    \cup
    {[server |-> "manas", classifier |-> c, class_label_mapping |-> m] :
        c \in Classifiers, m \in ManasClassMappings}

ScoreValues == {0, 25, 50}

\* request instances and predictions propagate_extra_fields can be given
ExtraFieldLists == {<< >>, <<"camera_id">>, <<"camera_id", "site">>}

BatchInstances ==
    {[filepath |-> p] : p \in {MkPath("a", ".jpg"), MkPath("b", ".JPG")}} \cup
    {[filepath |-> p, camera_id |-> c] :
        p \in {MkPath("a", ".jpg"), MkPath("b", ".JPG")}, c \in {"cam1", "cam2"}} \cup
    {[filepath |-> MkPath("a", ".jpg"), camera_id |-> "cam1", site |-> "north"]}

BatchPredictions ==
    {predict(MkPath("a", ".jpg"), Image("deer", 90)),
     predict(MkPath("a", ".jpg"), Image("fox", 80)),
     predict(MkPath("b", ".JPG"), Image("blank", 0))}

\* arrays and boxes crop_square_cv_to_pil can be given: colour arrays of up
\* to MaxDim x MaxDim pixels with every box whose corners lie on the half
\* pixel grid up to MaxOut pixels outside the largest of them; a 2-D array
\* and arrays of 1, 2 and 4 channels with two boxes inside them
Coordinates == Px(0 - MaxOut)..Px(MaxDim + MaxOut)

Boxes ==
    {xyxy \in Coordinates \X Coordinates \X Coordinates \X Coordinates :
        xyxy[1] < xyxy[3] /\ xyxy[2] < xyxy[4]}

ColourArrays == {[shape |-> <<h, w, 3>>] : h, w \in (MaxDim - 1)..MaxDim}

OtherArrays ==
    {[shape |-> <<MaxDim, MaxDim>>]} \cup {[shape |-> <<MaxDim, MaxDim, c>>] : c \in {1, 2, 4}}

InsideBoxes == {<<0, 0, Px(MaxDim), Px(MaxDim)>>, <<0, 0, Px(1), Px(MaxDim)>>}

CropCalls ==
    {[fn |-> "crop_square_cv_to_pil", array_image |-> a, xyxy |-> b] :
        a \in ColourArrays, b \in Boxes}
    \cup
    {[fn |-> "crop_square_cv_to_pil", array_image |-> a, xyxy |-> b] :
        a \in OtherArrays, b \in InsideBoxes}

\* the calls of each helper, by the helper called
SelectCalls ==
    {[fn |-> "select_best_animal_detection", detection_records |-> DetectionRecords(b)] :
        b \in DetectorOutputs}

ClassificationCalls ==
    {[fn |-> "to_classifications_record", scores |-> s, k |-> k] :
        s \in SeqsUpTo(ScoreValues, MaxClasses), k \in 0..MaxK}

DefaultClassificationCalls ==
    {[fn |-> "to_classifications_record", scores |-> s] :
        s \in SeqsUpTo(ScoreValues, MaxClasses)}

PredictCalls ==
    {[fn |-> "predict", model |-> m, image |-> c, filepath |-> MkPath("a", ".jpg")] :
        m \in Models, c \in ImageContents}

PropagateCalls ==
    {[fn |-> "propagate_extra_fields", extra_fields |-> f,
      instances_dict |-> [instances |-> n], predictions_dict |-> [predictions |-> p]] :
        f \in ExtraFieldLists, n \in SeqsUpTo(BatchInstances, MaxBatch),
        p \in SeqsUpTo(BatchPredictions, MaxBatch)}

\* a helper is about to be called with arguments `arg`
InitCall ==
    /\ \/ arg \in SelectCalls
       \/ arg \in ClassificationCalls
       \/ arg \in DefaultClassificationCalls
       \/ arg \in PredictCalls
       \/ arg \in PropagateCalls
    /\ request = << >>
    /\ pc = "call"
    /\ Fresh

Return(value) ==
    /\ pc = "call"
    /\ result' = value
    /\ pc' = "return"
    /\ UNCHANGED <<arg, request, i, control, out, outInst, pulls, exc, videoVars,
                   samplerVars, tempFiles, tmpSeq, unreleased, counters>>

CallSelectBestAnimalDetection ==
    /\ arg.fn = "select_best_animal_detection"
    /\ Return(Returned(select_best_animal_detection(arg.detection_records)))

CallToClassificationsRecord ==
    /\ arg.fn = "to_classifications_record"
    /\ Return(Returned(to_classifications_record(arg.scores, CLASS_LABEL_MAPPING,
                          IF "k" \in DOMAIN arg THEN arg.k ELSE DefaultK)))

CallPredictManas ==
    /\ arg.fn = "predict"
    /\ arg.model.server = "manas"
    /\ \E outcome \in predict_manas(arg.model, arg.image, arg.filepath) : Return(outcome)

CallPredictDeepfaune ==
    /\ arg.fn = "predict"
    /\ arg.model.server = "deepfaune"
    /\ \E outcome \in predict_deepfaune(arg.model, arg.image, arg.filepath) : Return(outcome)

CallPropagateExtraFields ==
    /\ arg.fn = "propagate_extra_fields"
    /\ Return(propagate_extra_fields(arg.extra_fields, arg.instances_dict,
                                     arg.predictions_dict))

CallCropSquareCvToPil ==
    /\ arg.fn = "crop_square_cv_to_pil"
    /\ \E outcome \in crop_square_cv_to_pil(arg.array_image, arg.xyxy) : Return(outcome)

NextCall ==
    \/ CallSelectBestAnimalDetection
    \/ CallToClassificationsRecord
    \/ CallPredictManas
    \/ CallPredictDeepfaune
    \/ CallPropagateExtraFields

CallSpec == InitCall /\ [][NextCall]_vars

\* crop_square_cv_to_pil is about to be called
InitCrop ==
    /\ arg \in CropCalls
    /\ request = << >>
    /\ pc = "call"
    /\ Fresh

NextCrop == CallCropSquareCvToPil

CropSpec == InitCrop /\ [][NextCrop]_vars

\* ----------------------------- requests whose instances carry side fields
\* {"filepath": ..., "camera_id"?: ...} sent to a server started with
\* --extra_fields=camera_id
TaggedInstances ==
    {[filepath |-> MkPath("a", ".jpg"), camera_id |-> "cam1"],
     [filepath |-> MkPath("bad", ".jpg"), camera_id |-> "cam2"],
     [filepath |-> MkPath("v", ".mp4"), camera_id |-> "cam1"],
     [filepath |-> MkPath("b", ".JPG")]}

InitTagged ==
    /\ request \in SeqsUpTo(TaggedInstances, MaxTagged) \ {<< >>}
    /\ pc = "request"
    /\ arg = NoArg
    /\ Fresh

TaggedSpec == InitTagged /\ [][NextServer]_vars

\* ======================================================================
\* Properties
\* ======================================================================
\* the envelopes emitted for instance j, in emission order
RECURSIVE Pick(_, _, _)
Pick(envs, insts, j) ==
    IF envs = << >> THEN << >>
    ELSE (IF Head(insts) = j THEN <<Head(envs)>> ELSE << >>)
         \o Pick(Tail(envs), Tail(insts), j)

RecordsOf(j) == Pick(out, outInst, j)

IsErrorEnvelope(env) ==
    /\ Len(env.predictions) = 1
    /\ env.predictions[1].prediction = "error"

ErrorCount(envs) == Cardinality({k \in 1..Len(envs) : IsErrorEnvelope(envs[k])})

\* instance j has been drained: the loop has moved past it
Finished(j) == j < i \/ (j = i /\ pc \in {"yield_image", "yield_error", "video_end", "done"})
             \/ pc = "done"

\* --- what processing one instance alone emits, computed from the disk ---
\* the envelopes of the frames of video v from source position idx on, `count`
\* frames having been sampled before; the video ends at the first sampled
\* frame whose prediction raises
RECURSIVE ExpectedFrames(_, _, _, _, _)
ExpectedFrames(v, path, interval, idx, count) ==
    IF idx >= Len(v.frames) THEN << >>
    ELSE IF idx % interval # 0 THEN ExpectedFrames(v, path, interval, idx + 1, count)
    ELSE LET content == v.frames[idx + 1]
         IN  IF content.decodable
             THEN <<Envelope(<<WithVideoContext(predict(path, content), path, count,
                                                VideoMetadataOf(v))>>)>>
                  \o ExpectedFrames(v, path, interval, idx + 1, count + 1)
             ELSE <<Envelope(<<ErrorRecord(path,
                        [what |-> "Cannot decode image", path |-> NoPath])>>)>>

Expected(instance) ==
    LET path == instance.filepath
    IN  IF ~is_video_file(path)
        THEN IF path \in DOMAIN ImageFiles /\ ImageFiles[path].decodable
             THEN <<Envelope(<<predict(path, ImageFiles[path])>>)>>
             ELSE <<Envelope(<<ErrorRecord(path,
                        [what |-> IF path \in DOMAIN ImageFiles
                                  THEN "Cannot decode image" ELSE "No such file",
                         path |-> NoPath])>>)>>
        ELSE LET v == VideoFiles[path]
             IN  IF ~v.opens
                 THEN <<Envelope(<<ErrorRecord(path,
                            [what |-> "Cannot open video", path |-> path])>>)>>
                 ELSE IF v.fps <= 0
                 THEN <<Envelope(<<ErrorRecord(path,
                            [what |-> "Invalid FPS for video", path |-> path])>>)>>
                 ELSE ExpectedFrames(v, path, FrameInterval(v.fps, SampleFps(instance)), 0, 0)

\* processing the instance raises somewhere: a missing or undecodable image,
\* a video that does not open or reports no frame rate, a sampled frame the
\* predictor cannot decode
Fails(instance) ==
    LET path == instance.filepath
    IN  IF ~is_video_file(path)
        THEN ~(path \in DOMAIN ImageFiles /\ ImageFiles[path].decodable)
        ELSE LET v == VideoFiles[path]
                 interval == FrameInterval(v.fps, SampleFps(instance))
             IN  \/ ~v.opens
                 \/ v.fps <= 0
                 \/ \E k \in 1..Len(v.frames) :
                        (k - 1) % interval = 0 /\ ~v.frames[k].decodable

\* C1: when processing an instance raises, exactly one error record
\* {filepath, prediction "error", prediction_score 0.0, error, classifications
\* {}, detections []} is emitted for it, the exception never leaves the
\* generator, and every instance, also one after a failure, emits what it
\* emits when processed alone.
C1_FaultIsolation ==
    /\ pc # "raised"
    /\ \A j \in 1..Len(request) :
          Finished(j) =>
             LET recs == RecordsOf(j)
             IN  /\ recs = Expected(request[j])
                 /\ ErrorCount(recs) = IF Fails(request[j]) THEN 1 ELSE 0
                 /\ \A k \in 1..Len(recs) :
                       IsErrorEnvelope(recs[k]) =>
                          /\ k = Len(recs)
                          /\ recs[k].predictions[1] =
                                ErrorRecord(request[j].filepath, recs[k].predictions[1].error)

\* three still images, the second failing: three records, only the second an
\* error record
C1_Witness ==
    /\ pc = "done"
    /\ Len(request) = 3
    /\ \A j \in 1..3 : ~is_video_file(request[j].filepath)
    /\ Fails(request[2]) /\ ~Fails(request[1]) /\ ~Fails(request[3])
    /\ Len(out) = 3
    /\ IsErrorEnvelope(out[2]) /\ ~IsErrorEnvelope(out[1]) /\ ~IsErrorEnvelope(out[3])

\* C2: in the DeepFaune and Manas servers a per-item input error (missing
\* file, undecodable image, invalid video, corrupt frame) becomes one error
\* record and the other instances are still processed; the request is not
\* aborted.
C2_ServerFaultIsolation ==
    /\ pc \notin {"rejected", "raised"}
    /\ \A j \in 1..Len(request) :
          (Finished(j) /\ Fails(request[j])) => ErrorCount(RecordsOf(j)) = 1

IsFrameEnvelope(env) ==
    /\ Len(env.predictions) = 1
    /\ "frame_number" \in DOMAIN env.predictions[1]

\* C3: records are emitted in request-instance order without interleaving,
\* an instance's error record is its last record, and the frame records of
\* one video are emitted in increasing frame_number order.
C3_Ordering ==
    /\ Len(outInst) = Len(out)
    /\ \A k \in 1..Len(out) :
          /\ outInst[k] \in 1..Len(request)
          /\ \A r \in 1..Len(out[k].predictions) :
                out[k].predictions[r].filepath = request[outInst[k]].filepath
    /\ \A a, b \in 1..Len(out) :
          a < b =>
             /\ outInst[a] <= outInst[b]
             /\ outInst[a] = outInst[b] => ~IsErrorEnvelope(out[a])
             /\ (outInst[a] = outInst[b] /\ IsFrameEnvelope(out[a]) /\ IsFrameEnvelope(out[b]))
                   => out[a].predictions[1].frame_number < out[b].predictions[1].frame_number

\* two frame records of a first instance, then a record of the second
C3_Witness ==
    /\ Len(out) >= 3
    /\ outInst[1] = 1 /\ outInst[2] = 1 /\ outInst[3] = 2
    /\ IsFrameEnvelope(out[1]) /\ IsFrameEnvelope(out[2])

\* C4: the generator works only on demand: it is suspended after every
\* record, every record it produced has been handed over (none buffered),
\* and no prediction, frame sampling or temp file of a further unit exists
\* that the consumer has not asked for.
C4_DemandDriven ==
    /\ Len(out) = pulls - (IF Running \/ pc = "done" THEN 1 ELSE 0)
    /\ attempts <= pulls /\ sampled <= pulls /\ tmpSeq <= pulls
    /\ ~Running => (attempts <= Len(out) /\ sampled <= Len(out) /\ tmpSeq <= Len(out))

\* suspended after the second frame record of a video that has a further
\* frame, which nobody has read yet
C4_Witness ==
    /\ Suspended
    /\ pc = "yield_frame"
    /\ Len(out) = 2 /\ pulls = 2 /\ sampled = 2 /\ attempts = 2
    /\ frame_idx + 1 < Len(VideoFiles[filepath].frames)

\* C5: the temp file of a frame is deleted, whether its prediction succeeded
\* or raised, before the next frame's temp file is created and before the
\* generator finishes: at most one exists at any time, only while its frame
\* is being predicted or its record is with the consumer, none after the end.
C5_TempFiles ==
    /\ Cardinality(tempFiles) <= 1
    /\ tempFiles # {} =>
          /\ pc \in {"frame_predict", "yield_frame"}
          /\ \A f \in tempFiles : f.path = temp_path
    /\ pc \in {"done", "closed"} => tempFiles = {}

\* the stream has ended after a video lost a frame to a failed prediction and
\* at least three temp files were created in all
C5_Witness ==
    /\ pc = "done"
    /\ tmpSeq >= 3
    /\ tempFiles = {}
    /\ \E k \in 1..Len(out) :
          /\ IsErrorEnvelope(out[k])
          /\ out[k].predictions[1].error.what = "Cannot decode image"
          /\ is_video_file(out[k].predictions[1].filepath)

\* C6: when the consumer closes the generator while it is suspended after a
\* frame's record, the temp file of that frame is deleted.
C6_CloseDeletesTemp ==
    [][(pc = "yield_frame" /\ pc' = "closed") => (tempFiles # {} /\ tempFiles' = {})]_vars

\* closed right after a frame record, the frame sequence not exhausted
C6_Witness ==
    /\ pc = "closed"
    /\ Len(out) > 0
    /\ IsFrameEnvelope(out[Len(out)])
    /\ frame_idx + 1 < Len(VideoFiles[filepath].frames)
    /\ tempFiles = {}

\* C7: the decoder handle opened by the sampler is released on every exit
\* path (exhaustion, early close, a frame's prediction raising): a handle is
\* open only while its sampling sequence is live.
C7_HandleReleased ==
    /\ unreleased = {}
    /\ cap = "open" =>
          pc \in {"frames_read", "frame_save", "frame_predict", "yield_frame", "frames_resume"}

\* C8: once the stream has finished, every instance of the request has at
\* least one emitted record with its filepath.
C8_NoInstanceDropped ==
    pc = "done" =>
       \A j \in 1..Len(request) :
          \E k \in 1..Len(out) :
             \E r \in 1..Len(out[k].predictions) :
                out[k].predictions[r].filepath = request[j].filepath

IsImageInstance(instance) == ~is_video_file(instance.filepath)

\* a video the sampler rejects before it samples a frame
IsRejectedVideo(instance) ==
    /\ is_video_file(instance.filepath)
    /\ \/ ~VideoFiles[instance.filepath].opens
       \/ VideoFiles[instance.filepath].fps <= 0

NumImages == Cardinality({j \in 1..Len(request) : IsImageInstance(request[j])})
NumRejectedVideos == Cardinality({j \in 1..Len(request) : IsRejectedVideo(request[j])})

\* C9 as stated: at the end the number of records is the number of image
\* instances plus the number of sampled frames whose prediction was attempted.
C9_CountAsStated ==
    pc = "done" => Len(out) = NumImages + frame_attempts

\* C9 amended: with a consumer that keeps pulling the stream ends, and the
\* number of records is one per image instance, plus one per sampled frame
\* that _predict_video started to process, plus one per video instance whose
\* processing raised (cannot be opened, frame rate <= 0) before any frame
\* was sampled.
C9_TerminatesWithCount ==
    /\ <>(pc = "done")
    /\ [](pc = "done" =>
            /\ image_attempts = NumImages
            /\ frame_attempts = sampled
            /\ Len(out) = NumImages + frame_attempts + NumRejectedVideos)

\* ended after an image, a rejected video and a video with frames
C9_Witness ==
    /\ pc = "done"
    /\ NumImages = 1
    /\ NumRejectedVideos = 1
    /\ frame_attempts >= 2
    /\ Len(out) = frame_attempts + 2

\* number of frames the sampler yields for n readable frames
SampledCount(n, interval) == (n + interval - 1) \div interval

\* C10: a video processed without failure emits exactly one record per
\* sampled frame; every frame record carries the original video path, the
\* video's metadata {fps, duration} and frame_number 0, 1, 2, ... in emission
\* order.
C10_FrameRecords ==
    \A j \in 1..Len(request) :
       is_video_file(request[j].filepath) =>
          LET recs == RecordsOf(j)
              v == VideoFiles[request[j].filepath]
          IN  /\ \A k \in 1..Len(recs) :
                    ~IsErrorEnvelope(recs[k]) =>
                       /\ Len(recs[k].predictions) = 1
                       /\ recs[k].predictions[1].filepath = request[j].filepath
                       /\ recs[k].predictions[1].metadata = VideoMetadataOf(v)
                       /\ recs[k].predictions[1].frame_number = k - 1
              /\ (Finished(j) /\ ErrorCount(recs) = 0) =>
                    Len(recs) = SampledCount(Len(v.frames),
                                             FrameInterval(v.fps, SampleFps(request[j])))

\* a video finished without failure after three frame records
C10_Witness ==
    /\ i >= 1
    /\ is_video_file(request[1].filepath)
    /\ Finished(1)
    /\ ErrorCount(RecordsOf(1)) = 0
    /\ Len(RecordsOf(1)) = 3
    /\ RecordsOf(1)[3].predictions[1].frame_number = 2

\* C11: for a video with a positive reported frame rate and F readable frames
\* the sampler uses frame_interval = max(1, floor(original_fps / target_fps))
\* and yields exactly the source frames at the 0-based positions 0, interval,
\* 2 * interval, ... below F, in that order, the k-th of them with extracted
\* index k (from 0): ceil(F / frame_interval) pairs in all.
C11_Sampling ==
    LET v == VideoAt(request[1].filepath)
        target_fps == request[1].sample_fps
        nframes == Len(v.frames)
        floor == CHOOSE q \in 0..v.fps : q * target_fps <= v.fps /\ v.fps < (q + 1) * target_fps
        interval == IF floor >= 1 THEN floor ELSE 1
    IN  /\ cap = "open" => frame_interval = interval
        \* the pair the sampler has just yielded
        /\ pc = "frame_save" =>
              /\ frame_number = sampled - 1
              /\ frame_idx = frame_number * interval
              /\ frame_idx < nframes
              /\ frame = v.frames[frame_idx + 1]
        \* ... and the record made from it
        /\ \A k \in 1..Len(out) :
              /\ out[k].predictions[1].frame_number = k - 1
              /\ out[k].predictions[1].prediction_score = (k - 1) * interval
        /\ pc = "done" =>
              /\ sampled * interval >= nframes
              /\ sampled > 0 => (sampled - 1) * interval < nframes
              /\ Len(out) = sampled

\* a clip of five frames at 4 frames per second sampled at 2 per second has
\* given the frames 0, 2 and 4
C11_Witness ==
    /\ pc = "done"
    /\ request[1].sample_fps = 2
    /\ VideoAt(request[1].filepath).fps = 4
    /\ Len(VideoAt(request[1].filepath).frames) = 5
    /\ frame_interval = 2
    /\ Len(out) = 3
    /\ out[3].predictions[1].frame_number = 2
    /\ out[3].predictions[1].prediction_score = 4

\* C12: a video that cannot be opened or reports a frame rate <= 0 is
\* rejected: the sampler never reaches a frame of it, no frame record is
\* emitted for it but exactly one error record (saying which of the two it
\* was), and the instances after it are processed as they are alone.
C12_RejectedVideo ==
    \A j \in 1..Len(request) :
       IsRejectedVideo(request[j]) =>
          /\ i = j =>
                /\ cap = "none" /\ tempFiles = {}
                /\ pc \in {"video", "frames_open", "raising", "yield_error", "done", "closed"}
          /\ \A k \in 1..Len(out) :
                outInst[k] = j =>
                   /\ ~IsFrameEnvelope(out[k])
                   /\ out[k].predictions[1] =
                         ErrorRecord(request[j].filepath,
                            [what |-> IF VideoAt(request[j].filepath).opens
                                      THEN "Invalid FPS for video" ELSE "Cannot open video",
                             path |-> request[j].filepath])
          /\ Finished(j) => Cardinality({k \in 1..Len(out) : outInst[k] = j}) = 1
          /\ pc = "done" =>
                \A n \in (j + 1)..Len(request) : RecordsOf(n) = Expected(request[n])

\* a video without a frame rate, then a still image: the error record of the
\* first, then the record of the second
C12_Witness ==
    /\ pc = "done"
    /\ Len(request) = 2
    /\ IsRejectedVideo(request[1])
    /\ VideoAt(request[1].filepath).opens
    /\ IsImageInstance(request[2])
    /\ Len(out) = 2
    /\ IsErrorEnvelope(out[1]) /\ outInst[1] = 1
    /\ ~IsErrorEnvelope(out[2]) /\ outInst[2] = 2

\* ---------------------------------------------------------------- predict
\* predict has returned / raised on the image of `arg`
PredictDone == pc = "return" /\ arg.fn = "predict"
\* the labels the detector gave the boxes of the image, in detector order
DetectedLabels == [n \in DOMAIN arg.image.bboxes |-> DetectorNames[arg.image.bboxes[n].cls]]
AnimalDetected == \E n \in DOMAIN DetectedLabels : DetectedLabels[n] = "animal"

\* C13: when the detector returns no detection at all, predict returns one
\* record with prediction "blank" (Manas: "vide" when that is one of the
\* classifier's labels, else "blank"), classifications {}, detections [] and
\* no prediction_score key.
C13_NoDetections ==
    (PredictDone /\ arg.image.bboxes = << >>) =>
       /\ ~result.raised
       /\ Len(result.value.predictions) = 1
       /\ LET r == result.value.predictions[1]
          IN  /\ r.prediction =
                    IF /\ arg.model.server = "manas"
                       /\ \E c \in DOMAIN arg.model.class_label_mapping :
                             arg.model.class_label_mapping[c] = "vide"
                    THEN "vide" ELSE "blank"
              /\ r.classifications = EmptyDict
              /\ r.detections = << >>
              /\ "prediction_score" \notin DOMAIN r

\* Manas, with "vide" among its classes, on an image without detections
C13_Witness ==
    /\ PredictDone
    /\ arg.image.bboxes = << >>
    /\ arg.model.server = "manas"
    /\ ~result.raised
    /\ result.value.predictions[1].prediction = "vide"
    /\ DOMAIN result.value.predictions[1] =
          {"filepath", "classifications", "detections", "prediction", "model_version"}

ClassOfRank(scores, rank) ==
    CHOOSE c \in 0..(Len(scores) - 1) :
       Cardinality({d \in 0..(Len(scores) - 1) :
                       \/ scores[d + 1] > scores[c + 1]
                       \/ (scores[d + 1] = scores[c + 1] /\ d < c)}) = rank

\* the animal detection select_best_animal_detection is specified to pick:
\* the first of the most confident ones
BestAnimalIndex ==
    CHOOSE n \in DOMAIN DetectedLabels :
       /\ DetectedLabels[n] = "animal"
       /\ \A m \in DOMAIN DetectedLabels :
             DetectedLabels[m] = "animal" =>
                \/ arg.image.bboxes[m].conf < arg.image.bboxes[n].conf
                \/ (arg.image.bboxes[m].conf = arg.image.bboxes[n].conf /\ n <= m)

\* C15: when a detection is labeled "animal", predict crops around the xyxy
\* box of the best animal detection, classifies that crop, builds the top-5
\* classification record and returns prediction = classifications.labels[0]
\* and prediction_score = classifications.scores[0], the label and value of
\* the largest classifier score.
C15_AnimalClassified ==
    (PredictDone /\ AnimalDetected) =>
       LET xyxy == arg.image.bboxes[BestAnimalIndex].xyxy
           scores == arg.model.classifier[xyxy]
       IN  /\ ~result.raised
           /\ result.classified = <<xyxy>>
           /\ Len(result.value.predictions) = 1
           /\ LET r == result.value.predictions[1]
              IN  /\ Len(r.classifications.labels) = 5
                  /\ Len(r.classifications.scores) = 5
                  /\ \A n \in 1..5 :
                        /\ r.classifications.labels[n] =
                              arg.model.class_label_mapping[ClassOfRank(scores, n - 1)]
                        /\ r.classifications.scores[n] = scores[ClassOfRank(scores, n - 1) + 1]
                  /\ r.prediction = r.classifications.labels[1]
                  /\ r.prediction_score = r.classifications.scores[1]
                  /\ \A c \in DOMAIN scores : scores[c] <= r.prediction_score

\* the same, for images the decoder gives as three channels
C15_ColourOnly ==
    (PredictDone /\ AnimalDetected
       /\ (arg.model.server = "manas" \/ arg.image.channels = 3)) =>
       LET xyxy == arg.image.bboxes[BestAnimalIndex].xyxy
           scores == arg.model.classifier[xyxy]
       IN  /\ ~result.raised
           /\ result.classified = <<xyxy>>
           /\ result.value.predictions[1].prediction =
                 arg.model.class_label_mapping[ClassOfRank(scores, 0)]
           /\ result.value.predictions[1].prediction_score = scores[ClassOfRank(scores, 0) + 1]

\* C16: in every branch of predict (no detections, non-animal detections
\* only, an animal detected) the detections field of the returned record is
\* the complete detector output: one record per box, in detector order, not
\* only the selected detection and not only the animals.
C16_AllDetectionsReported ==
    (PredictDone /\ ~result.raised) =>
       LET r == result.value.predictions[1]
           bboxes == arg.image.bboxes
       IN  /\ Len(r.detections) = Len(bboxes)
           /\ \A n \in DOMAIN bboxes :
                 /\ r.detections[n].class = bboxes[n].cls
                 /\ r.detections[n].label = DetectedLabels[n]
                 /\ r.detections[n].conf = bboxes[n].conf
                 /\ r.detections[n].xyxy = bboxes[n].xyxy
                 /\ r.detections[n].xywhn = bboxes[n].xywhn

\* a person, the animal that is selected, and a weaker animal: all three are
\* reported, the person first
C16_Witness ==
    /\ PredictDone
    /\ ~result.raised
    /\ DetectedLabels = <<"person", "animal", "animal">>
    /\ arg.image.bboxes[2].conf > arg.image.bboxes[3].conf
    /\ result.classified = <<arg.image.bboxes[2].xyxy>>
    /\ Len(result.value.predictions[1].detections) = 3
    /\ result.value.predictions[1].detections[1].label = "person"

\* ------------------------------------------------------ detection helpers
\* C17: select_best_animal_detection returns None exactly when no record is
\* labeled "animal"; otherwise the animal record of highest conf, and among
\* animal records of equal highest conf the first in input order.
C17_BestAnimal ==
    (pc = "return" /\ arg.fn = "select_best_animal_detection") =>
       LET records == arg.detection_records
           animals == {n \in DOMAIN records : records[n].label = "animal"}
       IN  /\ ~result.raised
           /\ result.value = None <=> animals = {}
           /\ animals # {} =>
                 \E n \in animals :
                    /\ result.value = records[n]
                    /\ \A m \in animals :
                          /\ records[m].conf <= records[n].conf
                          /\ m < n => records[m].conf < records[n].conf

\* a more confident person, then two animals of equal conf at different
\* places: the first of the two animals is returned
C17_Witness ==
    /\ pc = "return"
    /\ arg.fn = "select_best_animal_detection"
    /\ Len(arg.detection_records) = 3
    /\ arg.detection_records[1].label = "person"
    /\ arg.detection_records[1].conf > arg.detection_records[2].conf
    /\ arg.detection_records[2].label = "animal"
    /\ arg.detection_records[3].label = "animal"
    /\ arg.detection_records[2].conf = arg.detection_records[3].conf
    /\ arg.detection_records[2].xyxy # arg.detection_records[3].xyxy
    /\ result.value = arg.detection_records[2]

\* C18: to_classifications_record returns exactly min(k, n) entries (k is 5
\* by default), the scores in descending order, equal scores in ascending
\* class index order, and labels[j] the label of the class of scores[j].
C18_TopK ==
    (pc = "return" /\ arg.fn = "to_classifications_record") =>
       LET scores == arg.scores
           k == IF "k" \in DOMAIN arg THEN arg.k ELSE 5
           size == IF k <= Len(scores) THEN k ELSE Len(scores)
           r == result.value
       IN  /\ ~result.raised
           /\ DOMAIN r = {"labels", "scores"}
           /\ Len(r.labels) = size
           /\ Len(r.scores) = size
           /\ \A n \in 1..size :
                 /\ r.scores[n] = scores[ClassOfRank(scores, n - 1) + 1]
                 /\ r.labels[n] = CLASS_LABEL_MAPPING[ClassOfRank(scores, n - 1)]
           /\ \A n \in 1..(size - 1) : r.scores[n] >= r.scores[n + 1]

\* six classes, k left at its default: five entries, the two classes at 50
\* in index order, then the two at 25, then class 0
C18_Witness ==
    /\ pc = "return"
    /\ arg.fn = "to_classifications_record"
    /\ "k" \notin DOMAIN arg
    /\ arg.scores = <<0, 50, 0, 50, 25, 25>>
    /\ result.value.labels = <<"badger", "beaver", "red deer", "chamois", "bison">>
    /\ result.value.scores = <<50, 50, 25, 25, 0>>

\* C19: propagate_extra_fields copies, for every declared extra field and
\* every instance that has it, the instance's value onto the prediction whose
\* filepath is the instance's; a declared field an instance lacks is skipped
\* without error: nothing (no null either) is added for it, and no other key
\* of a prediction is touched.
C19_ExtraFields ==
    (pc = "return" /\ arg.fn = "propagate_extra_fields") =>
       LET declared == Values(arg.extra_fields)
           instances == arg.instances_dict.instances
           predictions == arg.predictions_dict.predictions
           Unmatched(n) == \A m \in DOMAIN predictions :
                              predictions[m].filepath # instances[n].filepath
       IN  \* it raises only when an instance with a declared field has no
           \* prediction to carry it
           /\ result.raised =>
                 \E n \in DOMAIN instances :
                    Unmatched(n) /\ declared \cap DOMAIN instances[n] # {}
           /\ ~result.raised =>
                 \A p \in DOMAIN result.value.predictions :
                    LET new == result.value.predictions[p]
                        old == CHOOSE o \in Values(predictions) :
                                  o.filepath = new.filepath
                        givers(f) == {n \in DOMAIN instances :
                                         /\ instances[n].filepath = new.filepath
                                         /\ f \in DOMAIN instances[n]}
                    IN  /\ \A f \in declared :
                              IF givers(f) = {}
                              THEN f \notin DOMAIN new
                              ELSE /\ f \in DOMAIN new
                                   /\ \E n \in givers(f) : new[f] = instances[n][f]
                        /\ DOMAIN new \subseteq DOMAIN old \cup declared
                        /\ new.prediction \in
                              {o.prediction : o \in {q \in Values(predictions) :
                                                        q.filepath = new.filepath}}

\* camera_id and site declared; the first instance has only camera_id, the
\* second neither: the first prediction gets camera_id and nothing else
C19_Witness ==
    /\ pc = "return"
    /\ arg.fn = "propagate_extra_fields"
    /\ arg.extra_fields = <<"camera_id", "site">>
    /\ Len(arg.instances_dict.instances) = 2
    /\ DOMAIN arg.instances_dict.instances[1] = {"filepath", "camera_id"}
    /\ DOMAIN arg.instances_dict.instances[2] = {"filepath"}
    /\ arg.instances_dict.instances[1].filepath # arg.instances_dict.instances[2].filepath
    /\ ~result.raised
    /\ Len(result.value.predictions) = 2
    /\ result.value.predictions[1].filepath = arg.instances_dict.instances[1].filepath
    /\ result.value.predictions[1].camera_id = arg.instances_dict.instances[1].camera_id
    /\ "site" \notin DOMAIN result.value.predictions[1]
    /\ "camera_id" \notin DOMAIN result.value.predictions[2]

\* C20: in the DeepFaune and Manas servers an instance that carries a field
\* declared in the server's extra_fields gets that field, with its value, on
\* every record emitted for the instance.
C20_ServerExtraFields ==
    \A k \in 1..Len(out) :
       \A r \in DOMAIN out[k].predictions :
          \A field \in Values(self_extra_fields) :
             field \in DOMAIN request[outInst[k]] =>
                /\ field \in DOMAIN out[k].predictions[r]
                /\ out[k].predictions[r][field] = request[outInst[k]][field]

\* C21: when several instances, or several predictions, have the same
\* filepath, propagate_extra_fields raises nothing and returns one record per
\* distinct filepath; for each declared field the value on that record is
\* the one of the last instance, in request order, that has the filepath and
\* the field.
C21_LastWriteWins ==
    (pc = "return" /\ arg.fn = "propagate_extra_fields") =>
       LET declared == Values(arg.extra_fields)
           instances == arg.instances_dict.instances
           predictions == arg.predictions_dict.predictions
           paths == {predictions[n].filepath : n \in DOMAIN predictions}
       IN  \* every instance has a prediction to carry its fields: no error
           /\ (\A n \in DOMAIN instances : instances[n].filepath \in paths) => ~result.raised
           /\ ~result.raised =>
                 LET new == result.value.predictions
                 IN  /\ Len(new) = Cardinality(paths)
                     /\ \A p, q \in DOMAIN new : new[p].filepath = new[q].filepath => p = q
                     /\ \A p \in DOMAIN new :
                           \A f \in declared :
                              \A n \in DOMAIN instances :
                                 ( /\ instances[n].filepath = new[p].filepath
                                   /\ f \in DOMAIN instances[n]
                                   /\ \A m \in (n + 1)..Len(instances) :
                                         ~ ( /\ instances[m].filepath = new[p].filepath
                                             /\ f \in DOMAIN instances[m] ) )
                                 => new[p][f] = instances[n][f]

\* two instances of one file with different camera_id, two predictions of
\* that file: one record, with the camera_id of the second instance
C21_Witness ==
    /\ pc = "return"
    /\ arg.fn = "propagate_extra_fields"
    /\ arg.extra_fields = <<"camera_id">>
    /\ Len(arg.instances_dict.instances) = 2
    /\ arg.instances_dict.instances[1].filepath = arg.instances_dict.instances[2].filepath
    /\ DOMAIN arg.instances_dict.instances[1] = {"filepath", "camera_id"}
    /\ DOMAIN arg.instances_dict.instances[2] = {"filepath", "camera_id"}
    /\ arg.instances_dict.instances[1].camera_id # arg.instances_dict.instances[2].camera_id
    /\ Len(arg.predictions_dict.predictions) = 2
    /\ arg.predictions_dict.predictions[1] # arg.predictions_dict.predictions[2]
    /\ ~result.raised
    /\ Len(result.value.predictions) = 1
    /\ result.value.predictions[1].camera_id = arg.instances_dict.instances[2].camera_id

\* C22 as stated: with an empty extra_fields list the returned predictions
\* are the input predictions: same records, same number, same order.
C22_EmptyIsIdentity ==
    (pc = "return" /\ arg.fn = "propagate_extra_fields" /\ arg.extra_fields = << >>) =>
       /\ ~result.raised
       /\ result.value.predictions = arg.predictions_dict.predictions

\* C22 amended: propagate_extra_fields changes nothing except the declared
\* fields, on predictions of pairwise distinct filepaths: then, with an empty
\* extra_fields list, the returned predictions are the input predictions
\* (same records, number and order), and in general the returned list has
\* the same length and order and each record differs from its input record
\* in declared fields only.  (Predictions that share a filepath are merged
\* into one, the last of them: the list gets shorter.)
C22_FrameEffect ==
    (pc = "return" /\ arg.fn = "propagate_extra_fields" /\ ~result.raised) =>
       LET declared == Values(arg.extra_fields)
           old == arg.predictions_dict.predictions
           new == result.value.predictions
           distinct == \A p, q \in DOMAIN old : old[p].filepath = old[q].filepath => p = q
       IN  /\ (distinct /\ arg.extra_fields = << >>) => new = old
           /\ distinct =>
                 /\ Len(new) = Len(old)
                 /\ \A p \in DOMAIN new :
                       /\ DOMAIN old[p] \subseteq DOMAIN new[p]
                       /\ DOMAIN new[p] \ DOMAIN old[p] \subseteq declared
                       /\ \A key \in DOMAIN old[p] \ declared : new[p][key] = old[p][key]
           /\ ~distinct => Len(new) < Len(old)

\* two predictions of different files, camera_id copied onto the first: it
\* keeps its other keys, the second is returned as it was
C22_Witness ==
    /\ pc = "return"
    /\ arg.fn = "propagate_extra_fields"
    /\ arg.extra_fields = <<"camera_id">>
    /\ Len(arg.predictions_dict.predictions) = 2
    /\ arg.predictions_dict.predictions[1].filepath # arg.predictions_dict.predictions[2].filepath
    /\ ~result.raised
    /\ Len(result.value.predictions) = 2
    /\ "camera_id" \in DOMAIN result.value.predictions[1]
    /\ result.value.predictions[1].prediction = arg.predictions_dict.predictions[1].prediction
    /\ result.value.predictions[2] = arg.predictions_dict.predictions[2]

\* ------------------------------------------------ crop_square_cv_to_pil
CropDone == pc = "return" /\ arg.fn = "crop_square_cv_to_pil"

\* floor(d / 2) of a difference d > 0 of coordinates, in pixels: the k with
\* 2k <= d < 2(k + 1) pixels
FloorHalf(d) == CHOOSE k \in 0..d : Px(Px(k)) <= d /\ d < Px(Px(k + 1))

\* the box lies inside the frame of the array
InFrame(xyxy, shape) ==
    /\ 0 <= xyxy[1] /\ xyxy[3] <= Px(shape[2])
    /\ 0 <= xyxy[2] /\ xyxy[4] <= Px(shape[1])

WholePixels(xyxy) == \A n \in 1..4 : xyxy[n] % 2 = 0

\* the squaring of C23: the shorter side grows by floor(difference / 2) at
\* each end, a square box stays as it is; and the crop of a colour array is
\* the squared box when that lies in the frame
C23_Squaring ==
    CropDone =>
        LET x1 == arg.xyxy[1]
            y1 == arg.xyxy[2]
            x2 == arg.xyxy[3]
            y2 == arg.xyxy[4]
            xsize == x2 - x1
            ysize == y2 - y1
            box == SquaredBox(arg.xyxy)
            shape == arg.array_image.shape
        IN  /\ xsize > ysize =>
                box = <<x1, y1 - Px(FloorHalf(xsize - ysize)), x2, y2 + Px(FloorHalf(xsize - ysize))>>
            /\ ysize > xsize =>
                box = <<x1 - Px(FloorHalf(ysize - xsize)), y1, x2 + Px(FloorHalf(ysize - xsize)), y2>>
            /\ xsize = ysize => box = arg.xyxy
            /\ (Len(shape) = 3 /\ shape[3] = 3 /\ InFrame(box, shape) /\ ~result.raised) =>
                  /\ result.value.cols = <<int(box[1]), int(box[3])>>
                  /\ result.value.rows = <<int(box[2]), int(box[4])>>

\* C23 as stated: crop_square_cv_to_pil squares the box before clipping (the
\* shorter side grows by floor(difference / 2) at each end, a square box is
\* left unchanged), and for an in-frame box with xsize == ysize the output
\* size is exactly (ysize, xsize).
C23_ExactSize ==
    /\ C23_Squaring
    /\ (/\ CropDone
        /\ arg.array_image \in ColourArrays
        /\ InFrame(arg.xyxy, arg.array_image.shape)
        /\ arg.xyxy[3] - arg.xyxy[1] = arg.xyxy[4] - arg.xyxy[2]) =>
           /\ ~result.raised
           /\ Px(result.value.size[1]) = arg.xyxy[3] - arg.xyxy[1]
           /\ Px(result.value.size[2]) = arg.xyxy[4] - arg.xyxy[2]

\* C23 amended: crop_square_cv_to_pil squares the box before clipping (the
\* shorter side grows by floor(difference / 2) at each end, a square box is
\* left unchanged); every coordinate is then truncated to a whole pixel, so
\* for an in-frame box with xsize == ysize the output size is
\* (int(y2) - int(y1), int(x2) - int(x1)), which is exactly (ysize, xsize)
\* when the coordinates are whole pixels and differs from it by less than a
\* pixel on each side otherwise; the call does not raise when the truncated
\* box holds a pixel.
C23_TruncatedSize ==
    /\ C23_Squaring
    /\ (/\ CropDone
        /\ arg.array_image \in ColourArrays
        /\ InFrame(arg.xyxy, arg.array_image.shape)
        /\ arg.xyxy[3] - arg.xyxy[1] = arg.xyxy[4] - arg.xyxy[2]
        /\ ~result.raised) =>
           LET xsize == arg.xyxy[3] - arg.xyxy[1]
               size == result.value.size
           IN  /\ size = <<int(arg.xyxy[3]) - int(arg.xyxy[1]), int(arg.xyxy[4]) - int(arg.xyxy[2])>>
               /\ WholePixels(arg.xyxy) => size = <<int(xsize), int(xsize)>>
               /\ \A n \in 1..2 : Px(size[n]) - xsize \in {-1, 0, 1}
    /\ (/\ CropDone
        /\ arg.array_image \in ColourArrays
        /\ InFrame(arg.xyxy, arg.array_image.shape)
        /\ arg.xyxy[3] - arg.xyxy[1] = arg.xyxy[4] - arg.xyxy[2]
        /\ int(arg.xyxy[3]) > int(arg.xyxy[1])
        /\ int(arg.xyxy[4]) > int(arg.xyxy[2])) => ~result.raised

\* a tall box of 1 x 3 pixels in the middle of a 3 x 3 frame is widened by a
\* pixel on each side in x, and the crop is the whole frame
C23_Witness ==
    /\ CropDone
    /\ arg.array_image.shape = <<3, 3, 3>>
    /\ arg.xyxy = <<Px(1), 0, Px(2), Px(3)>>
    /\ SquaredBox(arg.xyxy) = <<0, 0, Px(3), Px(3)>>
    /\ ~result.raised
    /\ result.value.size = <<3, 3>>

\* the pixel row or column n (it covers [n, n + 1) pixels) meets the side
\* [lo, hi) of a box given in half pixels
MeetsSide(n, lo, hi) == Px(n) < hi /\ Px(n + 1) > lo

\* C24: for every bounding box, also one partly or wholly outside the frame
\* or with negative coordinates, crop_square_cv_to_pil does not raise on a
\* colour array and slices the squared box clipped to the frame: every
\* returned pixel lies inside the frame and inside the squared box.
C24_ClippedToFrame ==
    (CropDone /\ arg.array_image \in ColourArrays) =>
        LET box == SquaredBox(arg.xyxy)
            height == arg.array_image.shape[1]
            width == arg.array_image.shape[2]
        IN  /\ ~result.raised
            /\ \A r \in result.value.rows[1]..(result.value.rows[2] - 1) :
                  r \in 0..(height - 1) /\ MeetsSide(r, box[2], box[4])
            /\ \A c \in result.value.cols[1]..(result.value.cols[2] - 1) :
                  c \in 0..(width - 1) /\ MeetsSide(c, box[1], box[3])
            /\ result.value.size[1] <= width
            /\ result.value.size[2] <= height

\* the part of C24 the slicing keeps: a box whose lower right corner is not
\* above or left of the frame's origin (int(x2) >= 0 and int(y2) >= 0) is
\* clipped to the frame, and the call can only raise when nothing is left
C24_ClippedWhenCornerInside ==
    (/\ CropDone
     /\ arg.array_image \in ColourArrays
     /\ int(SquaredBox(arg.xyxy)[3]) >= 0
     /\ int(SquaredBox(arg.xyxy)[4]) >= 0) =>
        LET box == SquaredBox(arg.xyxy)
            height == arg.array_image.shape[1]
            width == arg.array_image.shape[2]
            rows == PySlice(Max(0, int(box[2])), Min(int(box[4]), height), height)
            cols == PySlice(Max(0, int(box[1])), Min(int(box[3]), width), width)
        IN  /\ \A r \in rows[1]..(rows[2] - 1) :
                  r \in 0..(height - 1) /\ MeetsSide(r, box[2], box[4])
            /\ \A c \in cols[1]..(cols[2] - 1) :
                  c \in 0..(width - 1) /\ MeetsSide(c, box[1], box[3])
            /\ result.raised => (rows[1] = rows[2] \/ cols[1] = cols[2])
            /\ ~result.raised => result.value.rows = rows /\ result.value.cols = cols

\* a box wholly above the frame, its lower edge one pixel above the first
\* row: the crop is rows 0..height-2 of the frame
C24_NegativeStop ==
    /\ CropDone
    /\ arg.array_image.shape = <<3, 3, 3>>
    /\ arg.xyxy = <<0, Px(0 - 2), Px(1), Px(0 - 1)>>
    /\ ~result.raised
    /\ result.value.rows = <<0, 2>>

\* ---------------------------------------------------- channels (predict)
ThreeChannels(shape) == Len(shape) = 3 /\ shape[3] = 3

\* C25: crop_square_cv_to_pil raises, and returns no crop, for every array
\* that does not have exactly 3 channels (2-D grayscale, or any other channel
\* count such as 4), and the single-image predictors decode to 3 channels
\* before calling it.
C25_ThreeChannelsOnly ==
    (pc = "return" /\ arg.fn = "predict") =>
        \A n \in DOMAIN result.decoded :
            /\ ThreeChannels(result.decoded[n])
            /\ ~ThreeChannels(result.decoded[n]) => result.raised /\ result.classified = << >>

\* DeepFaune classifies the crop of a file with an alpha channel: the array
\* it decoded has 4 channels and crop_square_cv_to_pil did not raise
C25_FourChannelsCropped ==
    /\ pc = "return"
    /\ arg.fn = "predict"
    /\ arg.model.server = "deepfaune"
    /\ arg.image.channels = 4
    /\ result.decoded = <<(<<32, 32, 4>>)>>
    /\ ~result.raised
    /\ result.classified # << >>

\* what holds of C25: Manas always decodes to 3 channels; an array with
\* fewer than three axes or fewer than three channels makes the crop raise
C25_ManasDecodesColour ==
    (pc = "return" /\ arg.fn = "predict") =>
        \A n \in DOMAIN result.decoded :
            /\ arg.model.server = "manas" => ThreeChannels(result.decoded[n])
            /\ (Len(result.decoded[n]) < 3) => result.raised /\ result.what = "ValueError"

\* ------------------------------------------------- the fields of a record
RequiredFields == {"filepath", "classifications", "detections", "prediction"}

\* C26 as stated: every emitted record, the synthetic error record included,
\* has filepath, classifications, detections, prediction and model_version.
C26_AllFields ==
    \A k \in DOMAIN out : \A n \in DOMAIN out[k].predictions :
        RequiredFields \cup {"model_version"} \subseteq DOMAIN out[k].predictions[n]

\* C26 amended: every emitted record has filepath, classifications,
\* detections and prediction; every record a predictor made also has
\* model_version, while the synthetic error record has no model_version: its
\* keys are exactly filepath, prediction, prediction_score, error,
\* classifications and detections.
C26_FieldsButVersion ==
    \A k \in DOMAIN out : \A n \in DOMAIN out[k].predictions :
        LET record == out[k].predictions[n]
        IN  /\ RequiredFields \subseteq DOMAIN record
            /\ IF record.prediction = "error"
               THEN DOMAIN record = RequiredFields \cup {"prediction_score", "error"}
               ELSE "model_version" \in DOMAIN record

\* a frame record with its model_version, then the error record of the
\* same video, both emitted
C26_Witness ==
    /\ Len(out) >= 2
    /\ \E k \in DOMAIN out :
          /\ k + 1 \in DOMAIN out
          /\ "frame_number" \in DOMAIN out[k].predictions[1]
          /\ "model_version" \in DOMAIN out[k].predictions[1]
          /\ out[k + 1].predictions[1].prediction = "error"
          /\ "model_version" \notin DOMAIN out[k + 1].predictions[1]

\* ------------------------------------------------------ image or video
\* the name ends in a dot and one of the six video extensions, in any of the
\* spellings that occur, after at least one other character
IsVideoName(name) ==
    /\ Len(name) >= 3
    /\ name[Len(name) - 1] = "."
    /\ name[Len(name)] \in
          {"mp4", "MP4", "Mp4", "mkv", "MKV", "mov", "Mov", "webm", "WebM",
           "avi", "AVI", "m4v", "M4V"}

\* the file name a path of the routed requests was parsed from
NameOf ==
    [p \in RoutedPaths \cup MissingFiles |->
        CHOOSE name \in RoutedNames \cup {<<"gone", ".", "jpg">>} : ParsePath(name) = p]

VideoPcs ==
    {"video", "frames_open", "frames_read", "frames_resume", "frame_save",
     "frame_predict", "yield_frame", "video_end"}

\* C27: the orchestrator takes the video path for an instance exactly when
\* the extension of its filepath, compared case-insensitively, is one of mp4,
\* mkv, mov, webm, avi, m4v; every other instance (another extension or none)
\* is passed unchanged to the single-image predictor and yields exactly one
\* record.
C27_Routing ==
    \A j \in 1..Len(request) :
        LET name == NameOf[request[j].filepath]
        IN
            /\ (j = i /\ pc \in VideoPcs) => IsVideoName(name)
            /\ (j = i /\ pc \in {"image", "yield_image", "raising", "yield_error"}) =>
                  ~IsVideoName(name)
            /\ (j = i /\ ~IsVideoName(name)) => tempFiles = {} /\ cap = "none"
            /\ (Finished(j) /\ IsVideoName(name)) =>
                  /\ Len(RecordsOf(j)) = 1
                  /\ IsFrameEnvelope(RecordsOf(j)[1])
            /\ (Finished(j) /\ ~IsVideoName(name)) =>
                  /\ Len(RecordsOf(j)) = 1
                  /\ ~IsFrameEnvelope(RecordsOf(j)[1])
                  /\ Len(RecordsOf(j)[1].predictions) = 1
                  /\ RecordsOf(j)[1].predictions[1].filepath = request[j].filepath
                  /\ name # <<"gone", ".", "jpg">> =>
                        RecordsOf(j)[1].predictions =
                            PredictSingleImage(request[j].filepath, {}).predictions

\* "clip.MP4" went the video path and gave a frame record; "clip.mp4.bak",
\* ".mp4" and "clip.mp4x" went to the single-image predictor
C27_Witness ==
    /\ pc = "done"
    /\ Len(request) = 2
    /\ request[1].filepath = ParsePath(<<"clip", ".", "MP4">>)
    /\ IsFrameEnvelope(out[1])
    /\ request[2].filepath \in {ParsePath(<<"clip", ".", "mp4", ".", "bak">>),
                                 ParsePath(<<".", "mp4">>),
                                 ParsePath(<<"clip", ".", "mp4x">>)}
    /\ Len(out) = 2
    /\ ~IsFrameEnvelope(out[2])
    /\ out[2].predictions[1].prediction = "deer"

\* ------------------------------------------- a frame whose prediction raises
\* the sampled frames of instance j, as source positions counted from 1
SampledPositions(j) ==
    LET v == VideoFiles[request[j].filepath]
    IN  {k \in 1..Len(v.frames) :
            (k - 1) % FrameInterval(v.fps, SampleFps(request[j])) = 0}

\* instance j is a video that opens and whose prediction raises on one of
\* its sampled frames
FrameRaises(j) ==
    /\ request[j].filepath \in DOMAIN VideoFiles
    /\ VideoFiles[request[j].filepath].opens
    /\ VideoFiles[request[j].filepath].fps > 0
    /\ \E k \in SampledPositions(j) : ~VideoFiles[request[j].filepath].frames[k].decodable

\* the number of sampled frames before the first one that raises: the k of
\* the k-th sampled frame, counted from 0
RaisingFrame(j) ==
    LET v == VideoFiles[request[j].filepath]
        bad == CHOOSE k \in SampledPositions(j) :
                   /\ ~v.frames[k].decodable
                   /\ \A earlier \in SampledPositions(j) :
                         ~v.frames[earlier].decodable => k <= earlier
    IN  Cardinality({k \in SampledPositions(j) : k < bad})

C28_Records ==
    \A j \in 1..Len(request) :
        FrameRaises(j) =>
            LET k == RaisingFrame(j)
                recs == RecordsOf(j)
            IN  /\ Len(recs) <= k + 1
                /\ \A n \in DOMAIN recs :
                      IF n <= k
                      THEN /\ IsFrameEnvelope(recs[n])
                           /\ recs[n].predictions[1].frame_number = n - 1
                      ELSE /\ IsErrorEnvelope(recs[n])
                           /\ "frame_number" \notin DOMAIN recs[n].predictions[1]
                /\ Finished(j) => Len(recs) = k + 1

\* `out` only grows, and once the error record is handed over the generator's
\* next step takes the next instance (or ends the stream after the last)
C28_Step ==
    /\ Len(out') >= Len(out)
    /\ SubSeq(out', 1, Len(out)) = out
    /\ (pc = "yield_error" /\ pc' \notin {"yield_error", "closed"}) =>
          IF i < Len(request)
          THEN i' = i + 1 /\ pc' \in {"image", "video"}
          ELSE pc' = "done"

\* C28: when prediction on the k-th sampled frame of a video raises, the
\* records emitted for frames 0..k-1 stay emitted, exactly one error record
\* follows them, no record with frame_number >= k is ever emitted for that
\* video, and the next instance is then processed.
C28_FrameFailure == []C28_Records /\ [][C28_Step]_vars

\* the clip whose second frame is corrupt, then a still image: frame 0, the
\* error record, the image's record, although the clip's third frame is good
C28_Witness ==
    /\ pc = "done"
    /\ request = <<[filepath |-> MkPath("c", ".MP4")], [filepath |-> MkPath("a", ".jpg")]>>
    /\ VideoFiles[MkPath("c", ".MP4")].frames[3].decodable
    /\ Len(out) = 3
    /\ out[1].predictions[1].frame_number = 0
    /\ IsErrorEnvelope(out[2])
    /\ out[3].predictions[1].filepath = MkPath("a", ".jpg")
    /\ out[3].predictions[1].prediction = "deer"

\* ------------------------------------------------- filepaths of the records
\* the names tempfile has given out so far
TempNames == {TempName(k) : k \in 0..tmpSeq}

\* C29: no emitted record carries a temp frame file path as its filepath:
\* every record emitted for a video instance, frame record or error record,
\* and every entry of a frame's predictions list, has the instance's
\* original video path as its filepath.
C29_OriginalPath ==
    \A k \in DOMAIN out : \A n \in DOMAIN out[k].predictions :
        LET record == out[k].predictions[n]
        IN  /\ record.filepath \notin TempNames
            /\ record.filepath \notin {f.path : f \in tempFiles}
            /\ record.filepath = request[outInst[k]].filepath
            /\ "frame_number" \in DOMAIN record => is_video_file(record.filepath)

\* a video gave two frame records and a video a frame record and an error
\* record, made from temp files, all under the videos' own paths
C29_Witness ==
    /\ tmpSeq >= 4
    /\ \E k \in DOMAIN out :
          /\ IsFrameEnvelope(out[k])
          /\ out[k].predictions[1].frame_number = 1
          /\ out[k].predictions[1].filepath = MkPath("v", ".mp4")
    /\ \E k \in DOMAIN out :
          /\ IsErrorEnvelope(out[k])
          /\ out[k].predictions[1].filepath = MkPath("c", ".MP4")

\* ------------------------------------------- utils.py and video_utils.py
\* the first instance of the request whose processing raises; one past the
\* last instance when none does
FirstFailure ==
    IF \A j \in 1..Len(request) : ~Fails(request[j]) THEN Len(request) + 1
    ELSE CHOOSE j \in 1..Len(request) :
             Fails(request[j]) /\ \A earlier \in 1..(j - 1) : ~Fails(request[earlier])

IsPrefix(s, t) == Len(s) <= Len(t) /\ SubSeq(t, 1, Len(s)) = s

FrameRecordsOut == Cardinality({k \in DOMAIN out : IsFrameEnvelope(out[k])})

\* what either implementation has done as long as nothing has raised: the
\* records are those of the instances taken so far, in order, and a temp file
\* is created for each frame record, alone, and deleted before the next
SameUntilRaise ==
    /\ \A j \in 1..Len(request) :
          j < FirstFailure =>
             /\ IsPrefix(RecordsOf(j), Expected(request[j]))
             /\ (Finished(j) /\ ~(j = i /\ pc = "closed")) => RecordsOf(j) = Expected(request[j])
             /\ j = i => pc \notin {"raising", "raised", "yield_error"}
    /\ i < FirstFailure =>
          /\ ErrorCount(out) = 0
          /\ tmpSeq = FrameRecordsOut + (IF pc = "frame_predict" THEN 1 ELSE 0)
          /\ tempFiles = IF pc \in {"frame_predict", "yield_frame"}
                         THEN {[path |-> TempName(tmpSeq - 1), content |-> frame]}
                         ELSE {}

\* where they part: utils.py emits the records of the failing instance with
\* the error record last and goes on; video_utils.py emits no error record,
\* lets the exception out at the failing instance and never goes past it
DifferAtRaise ==
    LET f == FirstFailure
    IN  /\ arg.fn = "utils.VideoCapableLitAPI" =>
            /\ pc # "raised"
            /\ (f <= Len(request) /\ Finished(f) /\ ~(f = i /\ pc = "closed")) =>
                  RecordsOf(f) = Expected(request[f])
        /\ arg.fn = "video_utils.VideoCapableLitAPI" =>
            /\ ErrorCount(out) = 0
            /\ i <= f
            /\ pc # "yield_error"
            /\ pc = "raised" =>
                  /\ i = f
                  /\ f <= Len(request)
                  /\ Append(RecordsOf(f), Expected(request[f])[Len(Expected(request[f]))])
                        = Expected(request[f])

\* C30: the VideoCapableLitAPI of utils.py and that of video_utils.py are
\* equivalent on failure-free runs: as long as no per-item step raises both
\* emit the same sequence of records and create and delete the same temp
\* files in the same order; they differ only when a step raises (utils.py
\* emits an error record and continues, video_utils.py propagates the
\* exception and ends the stream).
C30_Equivalent == SameUntilRaise /\ DifferAtRaise

\* a video and a still image, both good, drained from video_utils.py: the
\* records utils.py gives, two temp files made and deleted
C30_Witness ==
    /\ arg.fn = "video_utils.VideoCapableLitAPI"
    /\ request = <<[filepath |-> MkPath("v", ".mp4")], [filepath |-> MkPath("a", ".jpg")]>>
    /\ pc = "done"
    /\ out = Expected(request[1]) \o Expected(request[2])
    /\ Len(out) = 3
    /\ tmpSeq = 2
    /\ tempFiles = {}
====
